---- MODULE Spec2Model ----
(***************************************************************************)
(* Model of GoogleMapsScraper.scrape_places (src/scrapper/core.py) with    *)
(* the BrowserManager session lifecycle, the listing pager, the            *)
(* per-candidate visit loop and the name extraction and validation of      *)
(* src/scrapper/extractors.py.                                             *)
(*                                                                         *)
(* The browser is the environment: every awaited collaborator call either  *)
(* succeeds or raises, the rendered result list changes only in response   *)
(* to a scroll gesture, and the detail page of a candidate answers the     *)
(* name selectors in some way chosen per candidate.                        *)
(***************************************************************************)
EXTENDS Integers, Sequences, FiniteSets, TLC

\* ---------------------------------------------------------------- bounds

\* Largest target count (total) of a full run.
MaxTotal == 2
\* Largest number of result links the list of a full run can render.
MaxList == 3
\* Largest target count of a pager-only run.
MaxPagerTotal == 32
\* Largest rendered count at the start of a pager-only run.
MaxPagerStart == 2
\* Largest total and largest rendered count when the candidates are taken.
MaxBufferTotal == 10
MaxScenarioTotal == 10
MaxBufferRendered == 20

\* ------------------------------------------------------ program constants

max_scroll_attempts == 30
max_click_attempts == 3
StagnationLimit == 5
SidebarTrigger == 2
BufferNum == 3
BufferDen == 2
NameSelectors == 8

\* ------------------------------------------------------------------ state

VARIABLES
    pc,                     \* position in scrape_places / BrowserManager
    result,                 \* "none" | "returned" | "raised"
    total,                  \* argument total
    playwright, browser, context, page,   \* "none" | "open" | "closed"
    list_size,              \* environment: entries the result list can render
    virtualized,            \* environment: rendered entries can leave the DOM
    rendered,               \* environment: result links now in the DOM
    found, previously_counted, scroll_attempts, no_new_results_count,
    listings,               \* len(listings)
    idx,                    \* candidates of listings already left behind
    click_attempt,          \* click attempts made on the current candidate
    click_success,
    places,                 \* the output collection
    \* history variables (not read by the program)
    body_exit,              \* how the body of the try block was left
    close_failed,           \* resources whose own close call raised
    rendered0,              \* rendered count when paging started
    scrolls,                \* scroll gestures issued by the pager loop
    list_kind,              \* "none" | "const" | "plus1" | "other"
    corrective_attempts,    \* times the corrective branch was entered
    corrective_scroll,      \* scroll gesture of the first corrective attempt
                            \* (both kept only while list_kind is "const"
                            \* or "plus1")
    no_growth_run,          \* latest consecutive scrolls that did not
                            \* increase the rendered count
    place_src,              \* candidate number each record came from
    last_visited,           \* number of the candidate visited last
    last_event,             \* what the last step did
    last_name,              \* name produced by the last extraction
    exc_cur,                \* an exception was raised while visiting the
                            \* current candidate (swallowed or not)
    extracted_cur,          \* field extraction ran for the current candidate
    \* one candidate visit in detail (core.py l.227-269)
    detail,                 \* environment: the detail page now loaded
    url_coordinates,        \* coordinates of scrape_places (l.229)
    cur_place,              \* the Place being built
    primary,                \* history: place as the primary pass left it
    adv_called,             \* history: advanced passes invoked
    consulted,              \* history: methods extract_coordinates ran
    has_coords,             \* value returned by Place.has_coordinates()
    \* arguments and results of the URL cleaners
    raw_url, cleaned, recleaned,
    img_url, img_primary, img_advanced,
    \* one field extractor on its own
    cur_field,              \* the field extracted
    cur_probes,             \* environment: what each selector meets
    field_value,            \* value returned: << v >>, << >> for None
    queried,                \* history: selectors queried
    csv_row,                \* value returned by Place.to_csv_row()
    scenario,               \* environment: how the candidates behave
    valid_places            \* value returned by filter_valid_places

vars == << pc, result, total, playwright, browser, context, page, list_size,
           virtualized,
           rendered, found, previously_counted, scroll_attempts,
           no_new_results_count, listings, idx, click_attempt, click_success,
           places, body_exit, close_failed, rendered0, scrolls, list_kind,
           corrective_attempts, corrective_scroll, no_growth_run, place_src,
           last_visited, last_event, last_name, exc_cur, extracted_cur,
           detail, url_coordinates, cur_place, primary, adv_called,
           consulted, has_coords,
           raw_url, cleaned, recleaned, img_url, img_primary, img_advanced,
           cur_field, cur_probes, field_value, queried, csv_row,
           scenario, valid_places >>

resVars == << playwright, browser, context, page >>
envVars == << list_size, virtualized >>
pagerVars == << rendered, found, previously_counted, scroll_attempts,
                no_new_results_count, rendered0, scrolls, list_kind,
                corrective_attempts, corrective_scroll, no_growth_run >>
candVars == << listings, idx, click_attempt, click_success, places, place_src,
               last_visited, last_name, exc_cur, extracted_cur >>

visitVars == << detail, url_coordinates, cur_place, primary, adv_called,
               consulted >>
urlVars == << raw_url, cleaned, recleaned >>
imgVars == << img_url, img_primary, img_advanced >>
extractVars == << cur_field, cur_probes, field_value, queried >>
fieldVars == << visitVars, has_coords, urlVars, imgVars, extractVars,
               csv_row, scenario, valid_places >>

Min(a, b) == IF a <= b THEN a ELSE b

\* ------------------------------------------------------------ strings

\* Python's None where a str is expected.
None == "<None>"

\* The element of the singleton S. Val({ e : x \in { a } }) is e with a
\* evaluated once.
Val(S) == CHOOSE r \in S : TRUE

\* s[i-1:j] of Python (1-based, both ends included, cut at the ends of s).
Slice(s, i, j) == SubSeq(s, IF i < 1 THEN 1 ELSE i, Min(j, Len(s)))

\* s[i] (1-based), "" past the end.
CharAt(s, i) == IF 1 <= i /\ i <= Len(s) THEN SubSeq(s, i, i) ELSE ""

\* s[i:] (1-based i).
From(s, i) == Slice(s, i, Len(s))

\* s.startswith(p)
StartsWith(s, p) ==
    \E t \in { s }, q \in { p } :
        Len(t) >= Len(q) /\ SubSeq(t, 1, Len(q)) = q

\* p in s
Contains(s, p) ==
    \E t \in { s }, q \in { p } :
        \E i \in 1..(Len(t) - Len(q) + 1) : SubSeq(t, i, i + Len(q) - 1) = q

\* s.find(p) + 1: position of the first occurrence of p in s, 0 if none.
Find(s, p) ==
    Val({ IF \E i \in 1..(Len(t) - Len(q) + 1) :
                 SubSeq(t, i, i + Len(q) - 1) = q
          THEN CHOOSE i \in 1..(Len(t) - Len(q) + 1) :
                 /\ SubSeq(t, i, i + Len(q) - 1) = q
                 /\ \A j \in 1..(i - 1) : SubSeq(t, j, j + Len(q) - 1) # q
          ELSE 0 :
          t \in { s }, q \in { p } })

\* The part of s before the first occurrence of p, s when there is none.
Before(s, p) ==
    Val({ Val({ IF i = 0 THEN t ELSE Slice(t, 1, i - 1) :
                i \in { Find(t, p) } }) :
          t \in { s } })

\* The part of s after the first occurrence of p, "" when there is none.
After(s, p) ==
    Val({ Val({ IF i = 0 THEN "" ELSE From(t, i + Len(p)) :
                i \in { Find(t, p) } }) :
          t \in { s } })

UpperCase == "ABCDEFGHIJKLMNOPQRSTUVWXYZ"
LowerCase == "abcdefghijklmnopqrstuvwxyz"
Digits == "0123456789"
WhitespaceChars == " \t\n\r\f"

\* c.lower() for one character (ASCII letters)
LowerChar(c) ==
    Val({ Val({ IF k = 0 THEN x ELSE SubSeq(LowerCase, k, k) :
                k \in { Find(UpperCase, x) } }) :
          x \in { c } })

\* p in s.lower(), for p in lower case
ContainsLower(s, p) ==
    \E t \in { s }, q \in { p } :
        \E i \in 1..(Len(t) - Len(q) + 1) :
            \A k \in 1..Len(q) :
                LowerChar(SubSeq(t, i + k - 1, i + k - 1)) = SubSeq(q, k, k)

\* Position of the first character of s at or after start that occurs in
\* chars (inside) or does not (~ inside); Len(s) + 1 if there is none.
Scan(s, chars, start, inside) ==
    Val({ IF \E i \in a..Len(t) : Contains(chars, SubSeq(t, i, i)) = inside
          THEN CHOOSE i \in a..Len(t) :
                 /\ Contains(chars, SubSeq(t, i, i)) = inside
                 /\ \A j \in a..(i - 1) :
                        Contains(chars, SubSeq(t, j, j)) # inside
          ELSE Len(t) + 1 :
          t \in { s }, a \in { start } })

FirstOf(s, chars, start) == Scan(s, chars, start, TRUE)

\* Position of the last character of s that does not occur in chars, 0 if
\* there is none.
LastNotIn(s, chars) ==
    Val({ IF \E i \in 1..Len(t) : ~ Contains(chars, SubSeq(t, i, i))
          THEN CHOOSE i \in 1..Len(t) :
                 /\ ~ Contains(chars, SubSeq(t, i, i))
                 /\ \A j \in (i + 1)..Len(t) :
                        Contains(chars, SubSeq(t, j, j))
          ELSE 0 :
          t \in { s } })

\* s.lstrip(chars)
LStripChars(s, chars) ==
    Val({ From(t, Scan(t, chars, 1, FALSE)) : t \in { s } })

\* s.lstrip()
LStrip(s) == LStripChars(s, WhitespaceChars)

\* str.strip()
Strip(s) ==
    Val({ Slice(t, Scan(t, WhitespaceChars, 1, FALSE),
                LastNotIn(t, WhitespaceChars)) :
          t \in { s } })

\* ------------------------------------------------- website normalization

SchemeChars == LowerCase \o UpperCase \o Digits \o "+-."

\* url without its "scheme:", when it starts with one.
AfterScheme(url) ==
    Val({ Val({ IF /\ i > 1
                   /\ Contains(LowerCase \o UpperCase, SubSeq(t, 1, 1))
                   /\ \A k \in 1..(i - 1) :
                          Contains(SchemeChars, SubSeq(t, k, k))
                THEN From(t, i + 1) ELSE t :
                i \in { Find(t, ":") } }) :
          t \in { url } })

\* urllib.parse.urlparse(url), the members netloc and query: leading
\* blanks dropped, "scheme:" split off, "//netloc" up to the first of
\* "/?#", the fragment cut at "#", the query after the first "?".
urlparse(url) ==
    Val({ Val({ [ netloc |-> IF hasNet THEN Slice(rest, 3, delim - 1)
                             ELSE "",
                  query |-> After(Before(IF hasNet THEN From(rest, delim)
                                         ELSE rest, "#"), "?") ] :
                hasNet \in { Slice(rest, 1, 2) = "//" },
                delim \in { FirstOf(rest, "/?#", 3) } }) :
          rest \in { AfterScheme(LStrip(url)) } })

\* The %XX escapes decoded by unquote that occur in the inputs.
PercentCodes == << "20", "23", "25", "26", "2f", "3a", "3d", "3f" >>
PercentChars == " #%&/:=?"

\* The two characters after position i of s, in lower case.
CodeAt(s, i) == LowerChar(CharAt(s, i + 1)) \o LowerChar(CharAt(s, i + 2))

\* What unquote makes of the "+" or "%" at position i of s, and the
\* number of characters of s it stands for.
Unescaped(s, i) ==
    Val({ IF SubSeq(t, i, i) = "+" THEN [ text |-> " ", width |-> 1 ]
          ELSE IF hit = { } THEN [ text |-> "%", width |-> 1 ]
          ELSE [ text |-> CharAt(PercentChars, Val(hit)), width |-> 3 ] :
          t \in { s },
          hit \in { { k \in 1..Len(PercentCodes) :
                        PercentCodes[k] = CodeAt(s, i) } } })

\* urllib.parse.unquote(s.replace('+', ' ')), as parse_qs decodes names
\* and values.
RECURSIVE unquote_plus(_)
unquote_plus(s) ==
    Val({ Val({ IF i > Len(t) THEN t
                ELSE Val({ Slice(t, 1, i - 1) \o u.text
                               \o unquote_plus(From(t, i + u.width)) :
                           u \in { Unescaped(t, i) } }) :
                i \in { FirstOf(t, "+%", 1) } }) :
          t \in { s } })

\* urllib.parse.parse_qs(qs)[key][0], None when key is not in the result:
\* fields are separated by "&", name and value by the first "=", fields
\* without "=" or with an empty value are dropped.
RECURSIVE parse_qs_first(_, _)
parse_qs_first(qs, key) ==
    Val({ IF t = "" THEN None
          ELSE Val({ Val({ IF /\ e # 0
                              /\ Len(field) > e
                              /\ unquote_plus(Slice(field, 1, e - 1)) = key
                           THEN unquote_plus(From(field, e + 1))
                           ELSE parse_qs_first(After(t, "&"), key) :
                           e \in { Find(field, "=") } }) :
                     field \in { Before(t, "&") } }) :
          t \in { qs } })

excluded_domains ==
    { "google.com", "gstatic.com", "googleapis.com", "maps.google.com",
      "youtube.com", "facebook.com/tr" }

\* The wrapper left as it is.
Unwrap_Identity(url) == url

\* The redirect wrapper unwrapped: parse_qs(urlparse(url).query)['q'][0].
Unwrap(url) ==
    Val({ IF Contains(t, "google.com/url?q=")
          THEN Val({ IF q # None THEN q ELSE t :
                     q \in { parse_qs_first(urlparse(t).query, "q") } })
          ELSE t :
          t \in { url } })

\* Add protocol if missing.
WithProtocol(url) ==
    Val({ IF StartsWith(t, "www.") THEN "https://" \o t
          ELSE IF ~ (StartsWith(t, "http://") \/ StartsWith(t, "https://"))
          THEN "https://" \o t
          ELSE t :
          t \in { url } })

\* clean_website_url of extractors.py
clean_website_url(url) ==
    Val({ Val({ IF /\ netloc # ""
                   /\ Contains(netloc, ".")
                   /\ ~ \E domain \in excluded_domains :
                            ContainsLower(netloc, domain)
                THEN u ELSE None :
                netloc \in { urlparse(u).netloc } }) :
          u \in { WithProtocol(Strip(Unwrap(url))) } })

\* --------------------------------------------------------- image URLs

valid_indicators ==
    { "googleusercontent.com", "streetviewpixels", "places",
      "maps.gstatic.com", ".jpg", ".jpeg", ".png", ".webp" }

invalid_indicators == { "data:image", "blob:", "avatar", "profile" }

\* url.startswith(('http://', 'https://', '//'))
ProperUrl(url) ==
    \E t \in { url } :
        StartsWith(t, "http://") \/ StartsWith(t, "https://")
            \/ StartsWith(t, "//")

\* is_valid_image_url of extractors.py (primary pass)
is_valid_image_url(url) ==
    \E t \in { url } :
        /\ t # None /\ t # ""
        /\ ProperUrl(t)
        /\ \E indicator \in valid_indicators : ContainsLower(t, indicator)
        /\ ~ \E indicator \in invalid_indicators : ContainsLower(t, indicator)

\* GoogleMapsScraper.is_valid_image_url of core.py (advanced pass)
core_is_valid_image_url(url) ==
    \E t \in { url } :
        /\ t # None /\ t # ""
        /\ ProperUrl(t)
        /\ \E indicator \in valid_indicators : ContainsLower(t, indicator)

\* Position after the digits that start at position i of s.
DigitsEnd(s, i) == Scan(s, Digits, i, FALSE)

\* Match of r'=s\d+-.*?(?=&|$)' at position i of s: the position after the
\* match, 0 if there is no match at i.
MatchSize(s, i) ==
    IF Slice(s, i, i + 1) # "=s" THEN 0
    ELSE Val({ IF d > i + 2 /\ CharAt(s, d) = "-"
               THEN FirstOf(s, "&", d + 1) ELSE 0 :
               d \in { DigitsEnd(s, i + 2) } })

\* Match of r'=w\d+-h\d+.*?(?=&|$)' at position i of s.
MatchWidthHeight(s, i) ==
    IF Slice(s, i, i + 1) # "=w" THEN 0
    ELSE Val({ IF d > i + 2 /\ Slice(s, d, d + 1) = "-h"
               THEN Val({ IF e > d + 2 THEN FirstOf(s, "&", e) ELSE 0 :
                          e \in { DigitsEnd(s, d + 2) } })
               ELSE 0 :
               d \in { DigitsEnd(s, i + 2) } })

\* re.sub(r'=s\d+-.*?(?=&|$)', '', s): the text before the first match,
\* then the same of the text after it.
RECURSIVE RemoveSize(_)
RemoveSize(s) ==
    Val({ IF \A i \in 1..Len(t) : MatchSize(t, i) = 0 THEN t
          ELSE Val({ Slice(t, 1, i - 1)
                         \o RemoveSize(From(t, MatchSize(t, i))) :
                     i \in { CHOOSE i \in 1..Len(t) :
                               /\ MatchSize(t, i) # 0
                               /\ \A j \in 1..(i - 1) :
                                      MatchSize(t, j) = 0 } }) :
          t \in { s } })

\* re.sub(r'=w\d+-h\d+.*?(?=&|$)', '', s)
RECURSIVE RemoveWidthHeight(_)
RemoveWidthHeight(s) ==
    Val({ IF \A i \in 1..Len(t) : MatchWidthHeight(t, i) = 0 THEN t
          ELSE Val({ Slice(t, 1, i - 1)
                         \o RemoveWidthHeight(From(t, MatchWidthHeight(t, i))) :
                     i \in { CHOOSE i \in 1..Len(t) :
                               /\ MatchWidthHeight(t, i) # 0
                               /\ \A j \in 1..(i - 1) :
                                      MatchWidthHeight(t, j) = 0 } }) :
          t \in { s } })

\* Both size restrictions removed, in the order of the two re.sub calls.
Unsized(url) == RemoveWidthHeight(RemoveSize(url))

\* re.search(r'=s\d+', s)
HasSizeParam(s) ==
    \E t \in { s } :
        \E i \in 1..(Len(t) - 2) :
            SubSeq(t, i, i + 1) = "=s" /\ Contains(Digits, SubSeq(t, i + 2, i + 2))

\* Handle protocol-relative URLs.
Absolute(url) ==
    Val({ IF StartsWith(t, "//") THEN "https:" \o t ELSE t : t \in { url } })

\* clean_image_url of extractors.py (primary pass)
clean_image_url(url) ==
    IF url = None \/ url = "" THEN None
    ELSE Val({ IF ~ Contains(a, "googleusercontent.com") THEN a
               ELSE Val({ IF ~ Contains(u, "=") THEN u \o "=s800"
                          ELSE IF ~ HasSizeParam(u) THEN u \o "&s=800"
                          ELSE u :
                          u \in { Unsized(a) } }) :
               a \in { Absolute(url) } })

\* GoogleMapsScraper.clean_image_url of core.py (advanced pass)
core_clean_image_url(url) ==
    IF url = None \/ url = "" THEN None
    ELSE Val({ IF ~ Contains(a, "googleusercontent.com") THEN a
               ELSE Val({ IF ~ Contains(u, "=") THEN u \o "=s1000"
                          ELSE u \o "&s=1000" :
                          u \in { Unsized(a) } }) :
               a \in { Absolute(url) } })

\* -------------------------------------------------------- coordinates

\* A float of degrees is kept as an integer count of 1/Scale degree.
Scale == 10000

\* Python's None where a number or a dict of coordinates is expected; a
\* number v that is set is << v >>, a pair is << latitude, longitude >>.
Unset == << >>

\* int(c) for one decimal digit c
DigitValue(c) == Find(Digits, c) - 1

\* int(s) for a text of decimal digits, 0 for the empty text.
RECURSIVE IntOf(_)
IntOf(s) ==
    Val({ IF t = "" THEN 0
          ELSE 10 * IntOf(Slice(t, 1, Len(t) - 1))
                  + DigitValue(CharAt(t, Len(t))) :
          t \in { s } })

\* Match of r'-?\d+\.?\d*' (signed) or r'\d+\.?\d*' at position i of s:
\* the position after the match, 0 if there is no match at i.
NumberEnd(s, i, signed) ==
    Val({ Val({ IF d <= j THEN 0
                ELSE IF CharAt(s, d) = "." THEN DigitsEnd(s, d + 1)
                ELSE d :
                d \in { DigitsEnd(s, j) } }) :
          j \in { IF signed /\ CharAt(s, i) = "-" THEN i + 1 ELSE i } })

\* The value of a numeral without its sign, in 1/Scale (decimals past the
\* fourth are dropped).
Magnitude(t) ==
    Val({ IntOf(Before(b, ".")) * Scale
            + IntOf(Slice(After(b, ".") \o "0000", 1, 4)) :
          b \in { IF StartsWith(t, "-") THEN From(t, 2) ELSE t } })

\* float(t) with the sign dropped.
float_Unsigned(t) == Magnitude(t)

\* float(t) for a numeral t matched by r'-?\d+\.?\d*', in 1/Scale.
float(t) == IF StartsWith(t, "-") THEN 0 - Magnitude(t) ELSE Magnitude(t)

\* Match at position i of s of two signed numerals with sep between them
\* and tail after them: << float(group 1), float(group 2) >>, Unset if
\* there is no match at i.
MatchPair(s, i, sep, tail) ==
    Val({ IF e = 0 \/ Slice(s, e, e + Len(sep) - 1) # sep THEN Unset
          ELSE Val({ IF f = 0 \/ Slice(s, f, f + Len(tail) - 1) # tail
                     THEN Unset
                     ELSE << float(Slice(s, i, e - 1)),
                             float(Slice(s, e + Len(sep), f - 1)) >> :
                     f \in { NumberEnd(s, e + Len(sep), TRUE) } }) :
          e \in { NumberEnd(s, i, TRUE) } })

\* re.search of prefix, numeral, sep, numeral, tail in s: the groups of the
\* leftmost match, Unset without a match.
SearchPair(s, prefix, sep, tail) ==
    Val({ IF hits = { } THEN Unset
          ELSE MatchPair(s, (CHOOSE i \in hits : \A j \in hits : i <= j)
                               + Len(prefix), sep, tail) :
          hits \in { { i \in 1..Len(s) :
                         /\ Slice(s, i, i + Len(prefix) - 1) = prefix
                         /\ MatchPair(s, i + Len(prefix), sep, tail)
                                # Unset } } })

\* re.search(r'/place/[^/]+/@(-?\d+\.?\d*),(-?\d+\.?\d*)', s)
SearchPlacePair(s) ==
    Val({ IF hits = { } THEN Unset
          ELSE MatchPair(s, FirstOf(s, "/",
                               (CHOOSE i \in hits : \A j \in hits : i <= j)
                                   + 7) + 2, ",", "") :
          hits \in { { i \in 1..Len(s) :
                         /\ Slice(s, i, i + 6) = "/place/"
                         /\ FirstOf(s, "/", i + 7) > i + 7
                         /\ CharAt(s, FirstOf(s, "/", i + 7) + 1) = "@"
                         /\ MatchPair(s, FirstOf(s, "/", i + 7) + 2, ",", "")
                                # Unset } } })

\* The groups the four URL patterns of extract_coordinates match in url, in
\* list order; the first is the pattern of extract_coordinates_from_url.
url_matches(url) ==
    << SearchPair(url, "/@", ",", ","),
       SearchPlacePair(url),
       SearchPair(url, "!3d", "!4d", ""),
       SearchPair(url, "center=", ",", "") >>

\* re.search(r'(\d+\.?\d*)', s): << float(group 1) >>, Unset without a
\* match.
SearchNumber(s) ==
    Val({ IF i > Len(s) THEN Unset
          ELSE << float(Slice(s, i, NumberEnd(s, i, FALSE) - 1)) >> :
          i \in { FirstOf(s, Digits, 1) } })

\* -90 <= latitude <= 90 and -180 <= longitude <= 180
InRange(pair) ==
    /\ -90 * Scale <= pair[1] /\ pair[1] <= 90 * Scale
    /\ -180 * Scale <= pair[2] /\ pair[2] <= 180 * Scale

Abs(v) == IF v < 0 THEN -v ELSE v

\* abs(latitude) > 0.001 and abs(longitude) > 0.001
AwayFromAxes(pair) ==
    /\ Abs(pair[1]) * 1000 > Scale
    /\ Abs(pair[2]) * 1000 > Scale

\* Validation of the embedded-data tier.
EmbeddedOk(pair) == InRange(pair) /\ AwayFromAxes(pair)

\* The pair at position i of seq alone.
FirstPair_HeadOnly(seq, i, strict) ==
    IF /\ i <= Len(seq) /\ seq[i] # Unset
       /\ IF strict THEN EmbeddedOk(seq[i]) ELSE InRange(seq[i])
    THEN seq[i]
    ELSE Unset

\* The first pair of seq, from position i on, that is in range and, when
\* strict, away from the axes.
RECURSIVE FirstPair(_, _, _)
FirstPair(seq, i, strict) ==
    IF i > Len(seq) THEN Unset
    ELSE IF /\ seq[i] # Unset
            /\ IF strict THEN EmbeddedOk(seq[i]) ELSE InRange(seq[i])
    THEN seq[i]
    ELSE FirstPair(seq, i + 1, strict)

\* extract_coordinates, Method 1: the URL patterns in list order; pg.url[i]
\* is the match of pattern i in page.url, Unset without a match.
FromUrl(pg) == FirstPair(pg.url, 1, FALSE)

\* extract_coordinates, Method 2: every match of the content patterns, in
\* the order they are tried; nothing when page.content() raises.
FromContent(pg) ==
    IF pg.content.raises THEN Unset
    ELSE FirstPair(pg.content.matches, 1, TRUE)

\* Method 3 without the test of the range.
FromAttributes_Unchecked(pg) ==
    IF pg.attrs.kind = "pair" THEN pg.attrs.pair ELSE Unset

\* extract_coordinates, Method 3: the data attributes of the element the
\* selectors find; float() of a malformed attribute raises, which ends
\* the method.
FromAttributes(pg) ==
    IF pg.attrs.kind = "pair" /\ InRange(pg.attrs.pair)
    THEN pg.attrs.pair ELSE Unset

\* GoogleMapsScraper.extract_coordinates_from_url: the first URL pattern
\* alone.
extract_coordinates_from_url(pg) ==
    IF pg.url[1] # Unset /\ InRange(pg.url[1]) THEN pg.url[1] ELSE Unset

\* GoogleMapsScraper.extract_coordinates_advanced: every match of the
\* content patterns, validated by range alone.
extract_coordinates_advanced(pg) ==
    IF pg.content.raises THEN Unset
    ELSE FirstPair(pg.content.matches, 1, FALSE)

\* Place.has_coordinates()
has_coordinates(p) ==
    /\ p.latitude # Unset
    /\ p.longitude # Unset
    /\ -90 * Scale <= p.latitude[1] /\ p.latitude[1] <= 90 * Scale
    /\ -180 * Scale <= p.longitude[1] /\ p.longitude[1] <= 180 * Scale

\* validate_place_data of utils.py
validate_place_data(place) ==
    LET name_issue ==
            IF place.name \in { None, "" } \/ Strip(place.name) = ""
            THEN << "Missing or empty name" >> ELSE << >>
        coordinates_issue ==
            IF /\ place.latitude # Unset \/ place.longitude # Unset
               /\ ~has_coordinates(place)
            THEN << "Invalid coordinates" >> ELSE << >>
        rating_issue ==
            IF /\ place.rating # Unset
               /\ ~(0 <= place.rating[1] /\ place.rating[1] <= 5 * Scale)
            THEN << "Invalid rating (must be 0-5)" >> ELSE << >>
        website_issue ==
            IF /\ place.website \notin { None, "" }
               /\ ~StartsWith(place.website, "http://")
               /\ ~StartsWith(place.website, "https://")
            THEN << "Website URL missing protocol" >> ELSE << >>
    IN  [ valid |-> name_issue \o coordinates_issue \o rating_issue = << >>,
          issues |-> name_issue \o coordinates_issue \o rating_issue
                        \o website_issue ]

\* filter_valid_places of utils.py
RECURSIVE filter_valid_places(_)
filter_valid_places(seq) ==
    IF seq = << >> THEN << >>
    ELSE LET rest == filter_valid_places(Tail(seq))
         IN  IF validate_place_data(Head(seq)).valid
             THEN << Head(seq) >> \o rest ELSE rest

\* The keys of Place.to_dict(), in the order of the dict literal.
to_dict_keys ==
    << "name", "address", "phone", "website", "image_url", "rating",
       "reviews_count", "latitude", "longitude" >>

\* Place.csv_headers()
csv_headers ==
    << "name", "address", "phone", "website", "image_url", "rating",
       "reviews_count", "latitude", "longitude" >>

\* `x or ''` for an Optional[str] x. A cell is << >> for the empty string
\* and << v >> for the value v.
StrOrEmpty(x) == IF x = None \/ x = "" THEN << >> ELSE << x >>

\* `x or ''` for an optional number x: None and 0 are both falsy.
NumOrEmpty(x) == IF x = Unset \/ x[1] = 0 THEN << >> ELSE x

\* Place.to_csv_row()
to_csv_row(p) ==
    << StrOrEmpty(p.name), StrOrEmpty(p.address), StrOrEmpty(p.phone),
       StrOrEmpty(p.website), StrOrEmpty(p.image_url),
       NumOrEmpty(p.rating), NumOrEmpty(p.reviews_count),
       NumOrEmpty(p.latitude), NumOrEmpty(p.longitude) >>

\* ------------------------------------------------ website and image

\* Python's truth test of an optional str.
Truthy(x) == x # None /\ x # ""

\* The URL built from the text of the website element.
TextUrl(text) ==
    LET url == Strip(text)
    IN  IF StartsWith(url, "http") THEN url
        ELSE "https://" \o LStripChars(url, "www.")

content_excludes ==
    { "google.com", "gstatic.com", "googleapis.com", "youtube.com",
      "facebook.com" }

\* extract_website, Strategy 3: the URLs matched in the page content, in
\* order, the first one that survives the exclusions and the cleaning.
RECURSIVE FromPageContent(_, _)
FromPageContent(matches, i) ==
    IF i > Len(matches) THEN None
    ELSE LET m == matches[i]
             url == IF StartsWith(m, "http") THEN m ELSE "https://" \o m
             c == IF \E x \in content_excludes : ContainsLower(m, x)
                  THEN None ELSE clean_website_url(url)
         IN  IF Truthy(c) THEN c ELSE FromPageContent(matches, i + 1)

\* extract_website, Strategy 1, on the element the selectors find: its
\* href, else its text.
FromLink(web) ==
    LET byHref == IF Truthy(web.href) /\ StartsWith(web.href, "http")
                  THEN clean_website_url(web.href) ELSE None
        byText == IF /\ Truthy(web.text)
                     /\ (Contains(web.text, "http")
                            \/ Contains(web.text, "www."))
                  THEN clean_website_url(TextUrl(web.text)) ELSE None
    IN  IF ~ web.link THEN None
        ELSE IF Truthy(byHref) THEN byHref
        ELSE byText

\* extract_website, Strategy 2: the first a[href^="http"] after a click on
\* an info button.
FromButton(web) ==
    IF web.button /\ Truthy(web.anchor)
    THEN clean_website_url(web.anchor) ELSE None

\* extract_website of extractors.py
extract_website(web) ==
    IF Truthy(FromLink(web)) THEN FromLink(web)
    ELSE IF Truthy(FromButton(web)) THEN FromButton(web)
    ELSE FromPageContent(web.content, 1)

\* GoogleMapsScraper.extract_website_advanced of core.py
extract_website_advanced(web) ==
    IF web.link /\ Truthy(web.href) /\ StartsWith(web.href, "http")
    THEN Unwrap(web.href)
    ELSE IF web.button /\ Truthy(web.anchor) THEN web.anchor
    ELSE None

\* extract_image of extractors.py on the image element the selectors find
\* (img.src is its data-src, else its src).
extract_image(img) ==
    IF Truthy(img.src) /\ is_valid_image_url(img.src)
       /\ Truthy(clean_image_url(img.src))
    THEN clean_image_url(img.src) ELSE None

\* GoogleMapsScraper.extract_image_advanced of core.py
extract_image_advanced(img) ==
    IF Truthy(img.src) /\ core_is_valid_image_url(img.src)
       /\ Truthy(core_clean_image_url(img.src))
    THEN core_clean_image_url(img.src) ELSE None

\* ------------------------------------------------------- name extraction

\* What one selector of extract_name can meet on the detail page:
\* no element, a raised exception, an element without text, or a text.
RawTexts == { "", " ", "Unknown", "Failed to extract", "Green Sod", " Turf Co " }
ProbeOutcomes == { "<absent>", "<throws>", "<none>" } \cup RawTexts

\* One selector of extract_name yields a name: element found, text not
\* None, stripped text not empty.
ProbeHits(o) ==
    /\ o \notin { "<absent>", "<throws>", "<none>" }
    /\ Strip(o) # ""

\* extract_name: the selectors in list order, first hit wins, "Unknown"
\* when none hits.
RECURSIVE extract_name_from(_, _)
extract_name_from(probes, i) ==
    IF i > Len(probes) THEN "Unknown"
    ELSE IF ProbeHits(probes[i]) THEN Strip(probes[i])
    ELSE extract_name_from(probes, i + 1)

extract_name(probes) == extract_name_from(probes, 1)

\* Selectors queried by extract_name: all up to and including the first hit.
RECURSIVE QueriedUpTo(_, _)
QueriedUpTo(probes, i) ==
    IF i > Len(probes) THEN Len(probes)
    ELSE IF ProbeHits(probes[i]) THEN i
    ELSE QueriedUpTo(probes, i + 1)

\* A selector queried by extract_name raised (and was swallowed).
NameProbeThrew(probes) ==
    \E i \in 1..QueriedUpTo(probes, 1) : probes[i] = "<throws>"

\* Detail pages as seen by the name selectors: the selectors before
\* position hit all miss in the same way, selector hit answers text.
NamePage(hit, miss, text) ==
    [ i \in 1..NameSelectors |->
        IF i < hit THEN miss ELSE IF i = hit THEN text ELSE "<absent>" ]

NamePages ==
    { NamePage(hit, miss, text) :
        hit \in 1..(NameSelectors + 1),
        miss \in { "<absent>", "<throws>", "<none>", " " },
        text \in RawTexts }

\* extract_place: a fresh Place whose name is set by extract_name.
extract_place(probes) == [ name |-> extract_name(probes) ]

\* The acceptance test of scrape_places on the extracted name.
NameRejected_NoUnknown(name) == name \in { "", "Failed to extract" }

NameRejected(name) == name \in { "", "Unknown", "Failed to extract" }

\* places.append(place)
Accept_Prepend(seq, x) == << x >> \o seq

\* The new record written over the last one.
Accept_Overwrite(seq, x) ==
    IF seq = << >> THEN << x >> ELSE [ seq EXCEPT ![Len(seq)] = x ]

Accept(seq, x) == Append(seq, x)

\* ------------------------------------------------ the other fields

\* Number of selectors extract_<field> tries.
Selectors(f) ==
    CASE f = "name" -> NameSelectors
      [] f = "address" -> 7
      [] f = "phone" -> 6
      [] f = "rating" -> 5
      [] f = "reviews_count" -> 5

\* s.replace(',', '')
RECURSIVE RemoveCommas(_)
RemoveCommas(s) ==
    Val({ IF Find(t, ",") = 0 THEN t
          ELSE Before(t, ",") \o RemoveCommas(After(t, ",")) :
          t \in { s } })

\* re.search(r'(\d+)', s): << int(group 1) >>, Unset without a match.
SearchInt(s) ==
    Val({ IF i > Len(s) THEN Unset
          ELSE << IntOf(Slice(s, i, DigitsEnd(s, i) - 1)) >> :
          i \in { FirstOf(s, Digits, 1) } })

\* 0 <= rating <= 5 accepted, anything else discarded.
RatingValid_Any(m) == m # Unset

RatingValid(m) == m # Unset /\ 0 <= m[1] /\ m[1] <= 5 * Scale

\* What one selector of extract_<field> returns for the outcome o it meets:
\* << v >> when it returns v, << >> when the loop goes on to the next
\* selector.
StrategyValue(f, o) ==
    IF o \in { "<absent>", "<throws>", "<none>", "" } THEN << >>
    ELSE CASE f \in { "name", "address", "phone" } ->
                IF Strip(o) # "" THEN << Strip(o) >> ELSE << >>
           [] f = "rating" ->
                Val({ IF RatingValid(m) THEN m ELSE << >> :
                      m \in { SearchNumber(Strip(o)) } })
           [] f = "reviews_count" -> SearchInt(RemoveCommas(o))

\* The last selector that returns a value.
FirstHit_Last(f, ps, i) ==
    IF \A k \in i..Len(ps) : StrategyValue(f, ps[k]) = << >> THEN 0
    ELSE CHOOSE k \in i..Len(ps) :
            /\ StrategyValue(f, ps[k]) # << >>
            /\ \A j \in (k + 1)..Len(ps) : StrategyValue(f, ps[j]) = << >>

\* The first selector, from number i on, that returns a value; 0 if none
\* does.
RECURSIVE FirstHit(_, _, _)
FirstHit(f, ps, i) ==
    IF i > Len(ps) THEN 0
    ELSE IF StrategyValue(f, ps[i]) # << >> THEN i
    ELSE FirstHit(f, ps, i + 1)

\* extract_address, extract_phone, extract_rating and extract_reviews_count:
\* the value of the first selector that returns one, else None; and
\* extract_name with its "Unknown".
extract_field(f, ps) ==
    IF f = "name" THEN << extract_name(ps) >>
    ELSE Val({ IF h = 0 THEN << >> ELSE StrategyValue(f, ps[h]) :
               h \in { FirstHit(f, ps, 1) } })

\* Selectors queried by extract_<field>: all up to and including the first
\* that returns a value.
Queried(f, ps) ==
    Val({ IF h = 0 THEN Len(ps) ELSE h : h \in { FirstHit(f, ps, 1) } })

\* An Optional[str] from << v >> or << >>.
OptStr(v) == IF v = << >> THEN None ELSE v[1]

extract_address(ps) == OptStr(extract_field("address", ps))
extract_phone(ps) == OptStr(extract_field("phone", ps))
extract_rating(ps) == extract_field("rating", ps)
extract_reviews_count(ps) == extract_field("reviews_count", ps)

\* Texts the selectors of a field can meet, and what a selector that does
\* not return can meet.
FieldTexts(f) ==
    CASE f = "name" -> { "Green Sod", " Turf Co ", "Unknown" }
      [] f = "address" -> { " 12 Farm Rd ", "Main St" }
      [] f = "phone" -> { "+1 555-0100", " 555-0199" }
      [] f = "rating" -> { "4.5", " 4.5 stars", "0", "-1", "Rated 3", "5.0" }
      [] f = "reviews_count" -> { "(1,234)", "87 reviews", "0" }

FieldMisses(f) ==
    { "<absent>", "<throws>", "<none>", "" }
        \cup CASE f \in { "name", "address", "phone" } -> { " " }
               [] f = "rating" -> { "7.2", "No rating", "10" }
               [] f = "reviews_count" -> { "No reviews" }

\* Detail pages as seen by the selectors of field f: the selectors before
\* position hit all meet miss, selector hit meets text, the later ones
\* meet rest.
FieldPages(f) ==
    { [ i \in 1..Selectors(f) |->
          IF i < hit THEN miss ELSE IF i = hit THEN text ELSE rest ] :
        hit \in 1..(Selectors(f) + 1),
        miss \in FieldMisses(f),
        text \in FieldTexts(f),
        rest \in { "<absent>" } \cup FieldTexts(f) }

\* ------------------------------------------------------- detail pages

\* Coordinates the pages of the model show, in 1/Scale degree.
AtSite == << 407128, -740060 >>
AtOther == << 515074, -1278 >>
AtAttr == << -338688, 1512093 >>
AtOrigin == << 0, 0 >>
OffRange == << 910000, 0 >>
OnAxis == << 10, 515074 >>

\* page.url of the detail pages.
Addresses ==
    { "https://www.google.com/maps/search/sod+farms",
      "https://www.google.com/maps/place/Green+Sod/@37.422,-122.084,15z",
      "https://www.google.com/maps/place/X/@-33.8688,151.2093,12z",
      "https://www.google.com/maps/place/X/@0,0,15z",
      "https://www.google.com/maps/place/X/@91,0,15z",
      "https://www.google.com/maps/place/X/@91,0,15z/data=!3d40.7128!4d-74.006",
      "https://www.google.com/maps/place/X/data=!3d40.7128!4d-74.006",
      "https://www.google.com/maps/place/X/data=!3d0!4d0",
      "https://www.google.com/maps/place/X/@40.7128,-74.006",
      "https://www.google.com/maps?center=51.5074,-0.1278" }

\* The matches of the four URL patterns, tabulated over the addresses.
UrlMatchesOf == [ a \in Addresses |-> url_matches(a) ]

\* page.content(): it raises, or the content patterns match these pairs.
ContentOutcomes ==
    { [ raises |-> TRUE, matches |-> << >> ] }
        \cup { [ raises |-> FALSE, matches |-> m ] :
                  m \in { << >>, << AtOther >>, << AtOrigin >>,
                          << AtOrigin, AtOther >>, << OffRange, AtOther >>,
                          << OnAxis >>, << OffRange, OnAxis, AtOther >> } }

\* data-lat / data-lng of the element found by the data selectors.
AttrOutcomes ==
    { [ kind |-> "absent", pair |-> Unset ],
      [ kind |-> "malformed", pair |-> Unset ],
      [ kind |-> "pair", pair |-> AtAttr ],
      [ kind |-> "pair", pair |-> AtOrigin ],
      [ kind |-> "pair", pair |-> OffRange ] }

\* The website element of a detail page (link, href, text), the info
\* button and the first a[href^="http"] behind it, and the URLs the
\* content patterns match.
WebPage(link, href, text, button, anchor, content) ==
    [ link |-> link, href |-> href, text |-> text, button |-> button,
      anchor |-> anchor, content |-> content ]

WebPages ==
    { WebPage(FALSE, None, None, FALSE, None, << >>),
      WebPage(TRUE, "https://www.example.com/", "example.com", FALSE, None,
              << >>),
      WebPage(TRUE, "https://www.google.com/url?q=https://example.com&sa=U",
              "Website", FALSE, None, << >>),
      WebPage(TRUE, "https://maps.google.com/maps?cid=42", "Website", FALSE,
              None, << >>),
      WebPage(TRUE, None, " www.sodfarm.example ", FALSE, None, << >>),
      WebPage(FALSE, None, None, TRUE, "https://support.google.com/maps",
              << "https://turf.example/contact" >>),
      WebPage(FALSE, None, None, FALSE, None,
              << "https://www.gstatic.com/x.js", "www.turf.example" >>) }

\* The image element of a detail page.
ImagePages ==
    { [ src |-> src ] :
        src \in { None,
                  "https://lh3.googleusercontent.com/p/XYZ=s100-k-no",
                  "//lh5.googleusercontent.com/p/AF1Qip=w408-h306-k-no",
                  "https://lh3.googleusercontent.com/a/profile=s64-c",
                  "data:image/png;base64,AAAA",
                  "https://example.com/logo.svg" } }

\* What the selectors of field f meet: the selectors before position hit
\* meet miss, selector hit meets text, the later ones find no element.
Probes(f, hit, miss, text) ==
    [ i \in 1..Selectors(f) |->
        IF i < hit THEN miss ELSE IF i = hit THEN text ELSE "<absent>" ]

\* The address, phone, rating and review count elements of a detail page.
FieldSet(address, phone, rating, reviews_count) ==
    [ address |-> address, phone |-> phone, rating |-> rating,
      reviews_count |-> reviews_count ]

NoFields ==
    FieldSet(Probes("address", 1, "", "<absent>"),
             Probes("phone", 1, "", "<absent>"),
             Probes("rating", 1, "", "<absent>"),
             Probes("reviews_count", 1, "", "<absent>"))

FieldSetList ==
    << FieldSet(Probes("address", 1, "", " 12 Farm Rd "),
               Probes("phone", 2, "<throws>", "+1 555-0100"),
               Probes("rating", 2, "7.2", "4.5"),
               Probes("reviews_count", 2, "", "(1,234)")),
      FieldSet(Probes("address", 3, " ", "Main St"),
               Probes("phone", 1, "", "<absent>"),
               Probes("rating", 1, "", "0"),
               Probes("reviews_count", 1, "", "0")),
      FieldSet(Probes("address", 1, "", "<absent>"),
               Probes("phone", 1, "", " 555-0199"),
               Probes("rating", 6, "10", ""),
               Probes("reviews_count", 3, "No reviews", "87 reviews")),
      FieldSet(Probes("address", 1, "", "<absent>"),
               Probes("phone", 1, "", "<absent>"),
               Probes("rating", 3, "<none>", "-1"),
               Probes("reviews_count", 1, "", "<absent>")) >>

FieldSets == { FieldSetList[i] : i \in 1..Len(FieldSetList) }

DetailPage(name, page_url, content, attrs, web, img, fields) ==
    [ name |-> name, page_url |-> page_url, url |-> UrlMatchesOf[page_url],
      content |-> content, attrs |-> attrs, web |-> web, img |-> img,
      fields |-> fields ]

BlankPage ==
    [ name |-> NamePage(NameSelectors + 1, "<absent>", ""),
      page_url |-> "about:blank",
      url |-> [ i \in 1..4 |-> Unset ],
      content |-> [ raises |-> FALSE, matches |-> << >> ],
      attrs |-> [ kind |-> "absent", pair |-> Unset ],
      web |-> WebPage(FALSE, None, None, FALSE, None, << >>),
      img |-> [ src |-> None ],
      fields |-> NoFields ]

\* Detail pages: what the visit of one candidate can read. Pages that
\* differ in where the coordinates, the website and the image are found,
\* and pages that differ in the other fields.
DetailPages ==
    { DetailPage(name, page_url, content, attrs, web, img, NoFields) :
        name \in { NamePage(1, "<absent>", "Green Sod"),
                   NamePage(NameSelectors + 1, "<absent>", "") },
        page_url \in Addresses,
        content \in ContentOutcomes,
        attrs \in AttrOutcomes,
        web \in WebPages,
        img \in ImagePages }
    \cup
    { DetailPage(name, page_url, content, BlankPage.attrs, BlankPage.web,
                 BlankPage.img, fields) :
        name \in { NamePage(1, "<absent>", "Green Sod"),
                   NamePage(3, "<throws>", " Turf Co "),
                   NamePage(NameSelectors + 1, "<absent>", "") },
        page_url \in Addresses,
        content \in { BlankPage.content,
                      [ raises |-> FALSE, matches |-> << AtOther >> ] },
        fields \in FieldSets }

\* ------------------------------------------------ a run of candidates

\* Every candidate clicks at once and shows a page with a valid name and
\* its own pair in the address.
NoScenario == [ flaw |-> "none", at |-> 0 ]

\* What one candidate of a run does differently: its first click attempt
\* fails, all its click attempts fail, the wait after the click raises,
\* or its page lacks the name or the pair in the address.
Flaws ==
    { "click_retry", "click_dead", "settle", "no_name", "embedded_pair",
      "attribute_pair", "no_pair", "out_of_range" }

\* The runs of t candidates: without a flaw, or with one flaw at one
\* candidate.
Scenarios(t) ==
    { NoScenario } \cup { [ flaw |-> f, at |-> k ] : f \in Flaws, k \in 1..t }

\* page.url of the detail view of candidate k.
ScenarioUrl(k) ==
    "https://www.google.com/maps/place/Sod+Farm+" \o ToString(k) \o "/@"
        \o ToString(30 + k) \o ".5,-" \o ToString(100 + k) \o ".25,15z"

\* The detail view of candidate k when it has no flaw: its name, its pair
\* in the address, another pair in the embedded data.
GoodPage(k) ==
    [ name |-> NamePage(1, "<absent>", "Sod Farm " \o ToString(k)),
      page_url |-> ScenarioUrl(k),
      url |-> url_matches(ScenarioUrl(k)),
      content |-> [ raises |-> FALSE, matches |-> << AtOther >> ],
      attrs |-> [ kind |-> "pair", pair |-> AtAttr ],
      web |-> WebPage(TRUE, "https://www.example.com/", "example.com", FALSE,
                      None, << >>),
      img |-> [ src |-> "https://lh3.googleusercontent.com/p/XYZ=s100-k-no" ],
      fields |-> IF k % (Len(FieldSetList) + 1) = 0 THEN NoFields
                 ELSE FieldSetList[k % (Len(FieldSetList) + 1)] ]

\* The flawless detail views, tabulated over the candidates.
GoodPageOf == [ k \in 1..MaxScenarioTotal |-> GoodPage(k) ]

\* The address of a page that spells no pair, or a pair out of range.
SearchUrl == "https://www.google.com/maps/search/sod+farms"
OffRangeUrl == "https://www.google.com/maps/place/X/@91,0,15z"

\* The detail view candidate k shows in run sc.
ScenarioPage(sc, k) ==
    LET good == GoodPageOf[k]
        flaw == IF sc.at = k THEN sc.flaw ELSE "none"
        blind == [ good EXCEPT !.page_url = SearchUrl,
                               !.url = UrlMatchesOf[SearchUrl] ]
    IN  CASE flaw = "no_name" ->
                [ good EXCEPT !.name = NamePage(NameSelectors + 1,
                                                "<absent>", "") ]
          [] flaw = "embedded_pair" ->
                [ blind EXCEPT !.content.matches = << OffRange, AtOther >> ]
          [] flaw = "attribute_pair" ->
                [ blind EXCEPT !.content.matches = << OnAxis >> ]
          [] flaw = "no_pair" ->
                [ blind EXCEPT !.content.raises = TRUE,
                               !.content.matches = << >>,
                               !.attrs = [ kind |-> "malformed",
                                           pair |-> Unset ] ]
          [] flaw = "out_of_range" ->
                [ good EXCEPT !.page_url = OffRangeUrl,
                              !.url = UrlMatchesOf[OffRangeUrl],
                              !.content.matches = << >>,
                              !.attrs = [ kind |-> "pair",
                                          pair |-> OffRange ] ]
          [] OTHER -> good

\* The four website and image extractors, tabulated over the pages.
WebsiteOf == [ web \in WebPages |-> extract_website(web) ]
AdvancedWebsiteOf == [ web \in WebPages |-> extract_website_advanced(web) ]
ImageOf == [ img \in ImagePages |-> extract_image(img) ]
AdvancedImageOf == [ img \in ImagePages |-> extract_image_advanced(img) ]

\* Place(): every field None.
NewPlace ==
    [ name |-> None, address |-> None, phone |-> None, website |-> None,
      image_url |-> None, rating |-> Unset, reviews_count |-> Unset,
      latitude |-> Unset, longitude |-> Unset ]

\* No candidate visit in detail and no cleaner call under way.
FieldsIdle ==
    /\ detail = BlankPage
    /\ url_coordinates = Unset
    /\ cur_place = NewPlace
    /\ primary = NewPlace
    /\ adv_called = { }
    /\ consulted = { }
    /\ has_coords = FALSE
    /\ raw_url = None /\ cleaned = None /\ recleaned = None
    /\ img_url = None /\ img_primary = None /\ img_advanced = None
    /\ cur_field = "none" /\ cur_probes = << >>
    /\ field_value = << >> /\ queried = 0
    /\ csv_row = << >>
    /\ scenario = NoScenario
    /\ valid_places = << >>

\* ------------------------------------------- arguments of the cleaners

\* Query parameters that follow q in a redirect wrapper.
ExtraParams == << "sa=U", "ved=2ahUKEwi", "usg=AOvVaw3", "q=https://other.example" >>

\* "&name=value" for the parameters of ExtraParams numbered in S, from
\* number i on.
RECURSIVE ParamsOf(_, _)
ParamsOf(S, i) ==
    IF i > Len(ExtraParams) THEN ""
    ELSE (IF i \in S THEN "&" \o ExtraParams[i] ELSE "") \o ParamsOf(S, i + 1)

ExtraQueries == { ParamsOf(S, 1) : S \in SUBSET (1..Len(ExtraParams)) }

Wrappers == { "https://www.google.com/url?q=", "http://google.com/url?q=" }

WrappedTargets ==
    { "https://example.com", "https%3A%2F%2Fexample.com%2Fa%3Fb%3D1",
      "www.example.com", "example.com/contact", "+https://example.com+",
      "https://www.youtube.com/c/x", "localhost",
      "https://example.com/google.com/url?q=https://b.example" }

DirectUrls ==
    { "https://example.com", "http://example.com/path?x=1",
      "www.example.com", "example.com", "  https://example.com/  ",
      "https://www.google.com/maps/place/x", "https://MAPS.GOOGLE.COM/x",
      "https://fonts.gstatic.com/s/a.woff", "https://www.facebook.com/tr?id=1",
      "https://localhost/x", "ftp://example.com/file",
      "https://example.com/google.com/url?q=https://b.example",
      "https://www.google.com/url?sa=t&url=https://example.com", "" }

\* hrefs and texts handed to clean_website_url.
RawWebsiteUrls ==
    DirectUrls
        \cup { w \o t \o x :
                 w \in Wrappers, t \in WrappedTargets, x \in ExtraQueries }

ImageBases ==
    { "https://lh3.googleusercontent.com/p/XYZ",
      "//lh5.googleusercontent.com/p/AF1Qip",
      "https://lh3.googleusercontent.com/proxy/img?id=7",
      "https://maps.gstatic.com/tactile/pane/default.png",
      "https://streetviewpixels-pa.googleapis.com/v1/thumbnail?panoid=abc",
      "https://example.com/photo.jpg" }

ImageSuffixes ==
    { "", "=s100-k-no", "=w408-h306-k-no", "=s100", "=w80-h80",
      "=s64-c&x=1", "=w100-h100-p&s=3", "=s0-d-e1-ft#frag", "&fife=1",
      "=h120" }

\* src / data-src values handed to the image cleaners.
RawImageUrls == { b \o x : b \in ImageBases, x \in ImageSuffixes }

\* Values of Place.latitude and Place.longitude: unset, or a number.
OptLatitudes ==
    { Unset } \cup { << v >> : v \in { -900001, -900000, -1, 0, 1, 407128,
                                        900000, 900001 } }

OptLongitudes ==
    { Unset } \cup { << v >> : v \in { -1800001, -1800000, -1, 0, 1,
                                        -740060, 1800000, 1800001 } }

\* Places handed to to_csv_row: each field unset, empty or zero, or set.
CsvPlaces ==
    { [ name |-> n, address |-> a, phone |-> ph, website |-> w,
        image_url |-> im, rating |-> r, reviews_count |-> rc,
        latitude |-> la, longitude |-> lo ] :
        n \in { None, "", "Green Sod" },
        a \in { None, "12 Farm Rd" },
        ph \in { None, "+1 555-0100" },
        w \in { None, "https://example.com" },
        im \in { None, "https://example.com/a.jpg" },
        r \in { Unset, << 0 >>, << 45000 >> },
        rc \in { Unset, << 0 >>, << 87 >> },
        la \in { Unset, << 0 >>, << 407128 >> },
        lo \in { Unset, << 0 >>, << -740060 >> } }

\* ----------------------------------------------------------------- Init

Init ==
    /\ pc = "start"
    /\ result = "none"
    /\ total \in 1..MaxTotal
    /\ playwright = "none" /\ browser = "none"
    /\ context = "none" /\ page = "none"
    /\ list_size \in 1..MaxList
    /\ virtualized = FALSE
    /\ rendered = 0
    /\ found = 0 /\ previously_counted = 0
    /\ scroll_attempts = 0 /\ no_new_results_count = 0
    /\ listings = 0 /\ idx = 0
    /\ click_attempt = 0 /\ click_success = FALSE
    /\ places = << >>
    /\ body_exit = "none"
    /\ close_failed = { }
    /\ rendered0 = 0 /\ scrolls = 0 /\ list_kind = "none"
    /\ corrective_attempts = 0 /\ corrective_scroll = 0
    /\ no_growth_run = 0
    /\ place_src = << >>
    /\ last_visited = 0
    /\ last_event = "none"
    /\ last_name = "<unset>"
    /\ exc_cur = FALSE /\ extracted_cur = FALSE
    /\ FieldsIdle

\* ------------------------------------------------- session start-up

\* An exception leaves the body of the try block at stage `stage`; control
\* continues at `to` (the finally block of get_page, or the handler and the
\* finally block of scrape_places).
BodyRaises(stage, to) ==
    /\ pc' = to
    /\ body_exit' = stage
    /\ last_event' = "raise"

\* BrowserManager.start: async_playwright().start()
StartPlaywright ==
    /\ pc = "start"
    /\ \E ok \in BOOLEAN :
        IF ok
        THEN /\ playwright' = "open"
             /\ pc' = "launch"
             /\ last_event' = "step"
             /\ UNCHANGED body_exit
        ELSE /\ BodyRaises("start", "close_context")
             /\ UNCHANGED playwright
    /\ UNCHANGED << result, total, browser, context, page, envVars,
                    close_failed >>
    /\ UNCHANGED << pagerVars, candVars >>
    /\ UNCHANGED fieldVars

\* BrowserManager.start: playwright.chromium.launch(...)
LaunchBrowser ==
    /\ pc = "launch"
    /\ \E ok \in BOOLEAN :
        IF ok
        THEN /\ browser' = "open"
             /\ pc' = "new_context"
             /\ last_event' = "step"
             /\ UNCHANGED body_exit
        ELSE /\ BodyRaises("start", "close_context")
             /\ UNCHANGED browser
    /\ UNCHANGED << result, total, playwright, context, page, envVars,
                    close_failed >>
    /\ UNCHANGED << pagerVars, candVars >>
    /\ UNCHANGED fieldVars

\* BrowserManager.start: browser.new_context(...)
NewContext ==
    /\ pc = "new_context"
    /\ \E ok \in BOOLEAN :
        IF ok
        THEN /\ context' = "open"
             /\ pc' = "init_script"
             /\ last_event' = "step"
             /\ UNCHANGED body_exit
        ELSE /\ BodyRaises("start", "close_context")
             /\ UNCHANGED context
    /\ UNCHANGED << result, total, playwright, browser, page, envVars,
                    close_failed >>
    /\ UNCHANGED << pagerVars, candVars >>
    /\ UNCHANGED fieldVars

\* BrowserManager.start: context.add_init_script(...)
AddInitScript ==
    /\ pc = "init_script"
    /\ \E ok \in BOOLEAN :
        IF ok
        THEN /\ pc' = "new_page"
             /\ last_event' = "step"
             /\ UNCHANGED body_exit
        ELSE BodyRaises("start", "close_context")
    /\ UNCHANGED << result, total, resVars, envVars,
                    close_failed >>
    /\ UNCHANGED << pagerVars, candVars >>
    /\ UNCHANGED fieldVars

\* BrowserManager.new_page: context.new_page()
NewPage ==
    /\ pc = "new_page"
    /\ \E ok \in BOOLEAN :
        IF ok
        THEN /\ page' = "open"
             /\ pc' = "set_headers"
             /\ last_event' = "step"
             /\ UNCHANGED body_exit
        ELSE /\ BodyRaises("page_open", "close_context")
             /\ UNCHANGED page
    /\ UNCHANGED << result, total, playwright, browser, context, envVars,
                    close_failed >>
    /\ UNCHANGED << pagerVars, candVars >>
    /\ UNCHANGED fieldVars

\* BrowserManager.new_page: page.set_extra_http_headers(...). A failure
\* here is raised before get_page enters its try block, so the finally
\* block that closes the page is not run.
SetHeaders ==
    /\ pc = "set_headers"
    /\ \E ok \in BOOLEAN :
        IF ok
        THEN /\ pc' = "goto"
             /\ last_event' = "step"
             /\ UNCHANGED body_exit
        ELSE BodyRaises("page_open", "close_context")
    /\ UNCHANGED << result, total, resVars, envVars,
                    close_failed >>
    /\ UNCHANGED << pagerVars, candVars >>
    /\ UNCHANGED fieldVars

\* ------------------------------------------------- navigate and search

\* page.goto(BASE_URL)
Goto ==
    /\ pc = "goto"
    /\ \E ok \in BOOLEAN :
        IF ok
        THEN /\ pc' = "search"
             /\ last_event' = "step"
             /\ UNCHANGED body_exit
        ELSE BodyRaises("navigate", "page_close")
    /\ UNCHANGED << result, total, resVars, envVars,
                    close_failed >>
    /\ UNCHANGED << pagerVars, candVars >>
    /\ UNCHANGED fieldVars

\* search_box.fill(search_for); page.keyboard.press("Enter")
Search ==
    /\ pc = "search"
    /\ \E ok \in BOOLEAN :
        IF ok
        THEN /\ pc' = "wait_results"
             /\ last_event' = "step"
             /\ UNCHANGED body_exit
        ELSE BodyRaises("search", "page_close")
    /\ UNCHANGED << result, total, resVars, envVars,
                    close_failed >>
    /\ UNCHANGED << pagerVars, candVars >>
    /\ UNCHANGED fieldVars

\* page.wait_for_selector(result link, timeout=20000): on success at least
\* one result link is rendered; on timeout the body returns places.
WaitResults ==
    /\ pc = "wait_results"
    /\ \/ /\ \E r \in 1..list_size :
               /\ rendered' = r
               /\ rendered0' = r
          /\ pc' = "paging"
          /\ last_event' = "step"
          /\ UNCHANGED body_exit
       \/ /\ pc' = "page_close"
          /\ body_exit' = "timeout"
          /\ last_event' = "wait_timeout"
          /\ UNCHANGED << rendered, rendered0 >>
    /\ UNCHANGED << result, total, resVars, envVars,
                    close_failed >>
    /\ UNCHANGED << found, previously_counted, scroll_attempts,
                    no_new_results_count, scrolls, list_kind,
                    corrective_attempts, corrective_scroll, no_growth_run >>
    /\ UNCHANGED candVars
    /\ UNCHANGED fieldVars

\* ------------------------------------------------------------ the pager

\* Environment: the rendered count after one scroll gesture. A scroll loads
\* at most one further entry; in a virtualized list one can leave the DOM.
RenderedAfter(r, size, virt) ==
    { n \in 0..size : (IF virt THEN r - 1 ELSE r) <= n /\ n <= r + 1 }

\* History: the kind of list seen so far.
KindAfter(kind, before, after) ==
    IF after = before /\ kind \in { "none", "const" } THEN "const"
    ELSE IF after = before + 1 /\ kind \in { "none", "plus1" } THEN "plus1"
    ELSE "other"

\* The pager's test for leaving the loop on reaching the target.
TargetRendered_Strict(f, t) == f > t

TargetRendered(f, t) == f >= t

\* The pager's test for stagnation.
Stagnated_Early(n) == n >= StagnationLimit - 1

Stagnated(n) == n >= StagnationLimit

\* One iteration of the scroll loop: page.mouse.wheel, the pause,
\* listings_locator.count(), and the bookkeeping that follows.
Scroll ==
    /\ pc = "paging"
    /\ scroll_attempts < max_scroll_attempts
    /\ \E ok \in BOOLEAN, r \in RenderedAfter(rendered, list_size, virtualized) :
        IF ~ok
        THEN /\ BodyRaises("paging", "page_close")
             /\ UNCHANGED pagerVars
        ELSE
          LET no_new == IF r = previously_counted
                        THEN no_new_results_count + 1 ELSE 0
              kind == KindAfter(list_kind, rendered, r)
              corrective == /\ ~TargetRendered(r, total)
                            /\ r = previously_counted
                            /\ no_new = SidebarTrigger
              leave == \/ TargetRendered(r, total)
                       \/ r = previously_counted /\ Stagnated(no_new)
          IN
          /\ rendered' = r
          /\ found' = r
          /\ scrolls' = scrolls + 1
          /\ list_kind' = kind
          /\ corrective_attempts' =
                IF kind = "other" THEN 0
                ELSE IF corrective THEN corrective_attempts + 1
                ELSE corrective_attempts
          /\ corrective_scroll' =
                IF kind = "other" THEN 0
                ELSE IF corrective /\ corrective_attempts = 0 THEN scrolls + 1
                ELSE corrective_scroll
          /\ no_growth_run' = IF r > rendered THEN 0 ELSE no_growth_run + 1
          /\ last_event' = "scroll"
          /\ UNCHANGED << body_exit, rendered0 >>
          /\ IF TargetRendered(r, total)
             THEN /\ pc' = "get_listings"
                  /\ UNCHANGED << previously_counted, scroll_attempts,
                                  no_new_results_count >>
             ELSE /\ no_new_results_count' = no_new
                  /\ IF leave
                     THEN /\ pc' = "get_listings"
                          /\ UNCHANGED << previously_counted, scroll_attempts >>
                     ELSE /\ pc' = "paging"
                          /\ previously_counted' = r
                          /\ scroll_attempts' = scroll_attempts + 1
    /\ UNCHANGED << result, total, resVars, envVars,
                    close_failed >>
    /\ UNCHANGED candVars
    /\ UNCHANGED fieldVars

\* total * 1.5 rounded up instead of truncated.
BufferedTarget_Ceil(t) == (t * BufferNum + BufferDen - 1) \div BufferDen

\* int(total * buffer_multiplier) with buffer_multiplier = 1.5
BufferedTarget(t) == (t * BufferNum) \div BufferDen

\* The pager loop has ended: by break, or by the attempt cap.
PagerEnded ==
    \/ pc = "get_listings"
    \/ pc = "paging" /\ scroll_attempts >= max_scroll_attempts

\* target_raw_listings, raw_listings and listings after the scroll loop.
GetListings ==
    /\ PagerEnded
    /\ \E ok \in BOOLEAN :
        IF ok
        THEN /\ listings' = Min(BufferedTarget(total), rendered)
             /\ idx' = 0
             /\ pc' = "loop"
             /\ last_event' = "listings"
             /\ UNCHANGED body_exit
        ELSE /\ BodyRaises("listings", "page_close")
             /\ UNCHANGED << listings, idx >>
    /\ UNCHANGED << result, total, resVars, envVars,
                    close_failed >>
    /\ UNCHANGED pagerVars
    /\ UNCHANGED << click_attempt, click_success, places, place_src,
                    last_visited, last_name, exc_cur, extracted_cur >>
    /\ UNCHANGED fieldVars

\* ----------------------------------------------- the candidate loop

\* The loop's test for having accepted enough records.
TargetReached_Late(n, t) == n > t

TargetReached(n, t) == n >= t

\* enumerate(listings) moving on to the next candidate.
Advance(i) == i + 1

\* Head of the for loop: the next candidate, unless the candidates are
\* exhausted or the target is reached; click_success is reset.
NextCandidate ==
    /\ pc = "loop"
    /\ IF idx >= listings \/ TargetReached(Len(places), total)
       THEN /\ pc' = "page_close"
            /\ body_exit' = "complete"
            /\ last_event' = "loop_end"
            /\ UNCHANGED << click_attempt, click_success, last_visited,
                            exc_cur, extracted_cur >>
       ELSE /\ pc' = "click"
            /\ click_attempt' = 0
            /\ click_success' = FALSE
            /\ last_visited' = idx + 1
            /\ exc_cur' = FALSE
            /\ extracted_cur' = FALSE
            /\ last_event' = "visit"
            /\ UNCHANGED body_exit
    /\ UNCHANGED << result, total, resVars, envVars,
                    close_failed >>
    /\ UNCHANGED pagerVars
    /\ UNCHANGED << listings, idx, places, place_src, last_name >>
    /\ UNCHANGED fieldVars

\* Click without the test of click_success after the retry loop.
Click_NoSkip ==
    /\ pc = "click"
    /\ click_attempt < max_click_attempts
    /\ click_attempt' = click_attempt + 1
    /\ \E ok \in BOOLEAN :
        IF ok
        THEN /\ click_success' = TRUE
             /\ pc' = "settle"
             /\ last_event' = "click_ok"
             /\ UNCHANGED exc_cur
        ELSE /\ exc_cur' = TRUE
             /\ UNCHANGED click_success
             /\ IF click_attempt + 1 < max_click_attempts
                THEN /\ pc' = "click"
                     /\ last_event' = "click_fail"
                ELSE /\ pc' = "settle"
                     /\ last_event' = "click_exhausted"
    /\ UNCHANGED << result, total, resVars, envVars,
                    close_failed, body_exit >>
    /\ UNCHANGED pagerVars
    /\ UNCHANGED << listings, idx, places, place_src, last_visited, last_name,
                    extracted_cur >>
    /\ UNCHANGED fieldVars

\* One pass of the click retry loop: listing.click(timeout=5000). After the
\* last failed attempt the candidate is skipped (continue).
Click ==
    /\ pc = "click"
    /\ click_attempt < max_click_attempts
    /\ click_attempt' = click_attempt + 1
    /\ \E ok \in BOOLEAN :
        IF ok
        THEN /\ click_success' = TRUE
             /\ pc' = "settle"
             /\ last_event' = "click_ok"
             /\ UNCHANGED << idx, exc_cur >>
        ELSE /\ exc_cur' = TRUE
             /\ UNCHANGED click_success
             /\ IF click_attempt + 1 < max_click_attempts
                THEN /\ pc' = "click"
                     /\ last_event' = "click_fail"
                     /\ UNCHANGED idx
                ELSE /\ pc' = "loop"
                     /\ last_event' = "click_exhausted"
                     /\ idx' = Advance(idx)
    /\ UNCHANGED << result, total, resVars, envVars,
                    close_failed, body_exit >>
    /\ UNCHANGED pagerVars
    /\ UNCHANGED << listings, places, place_src, last_visited, last_name,
                    extracted_cur >>
    /\ UNCHANGED fieldVars

\* Settle without the per-candidate handler: the exception leaves the loop.
Settle_Abort ==
    /\ pc = "settle"
    /\ \E ok \in BOOLEAN :
        IF ok
        THEN /\ pc' = "extract"
             /\ last_event' = "settle_ok"
             /\ UNCHANGED << exc_cur, body_exit >>
        ELSE /\ BodyRaises("candidate", "page_close")
             /\ exc_cur' = TRUE
    /\ UNCHANGED << result, total, resVars, envVars,
                    close_failed >>
    /\ UNCHANGED pagerVars
    /\ UNCHANGED << listings, idx, click_attempt, click_success, places,
                    place_src, last_visited, last_name, extracted_cur >>
    /\ UNCHANGED fieldVars

\* page.wait_for_timeout(4000); page.wait_for_timeout(random): an exception
\* reaches the per-candidate handler, which skips the candidate.
Settle ==
    /\ pc = "settle"
    /\ \E ok \in BOOLEAN :
        IF ok
        THEN /\ pc' = "extract"
             /\ last_event' = "settle_ok"
             /\ UNCHANGED << idx, exc_cur >>
        ELSE /\ pc' = "loop"
             /\ last_event' = "settle_raise"
             /\ exc_cur' = TRUE
             /\ idx' = Advance(idx)
    /\ UNCHANGED << result, total, resVars, envVars,
                    close_failed, body_exit >>
    /\ UNCHANGED pagerVars
    /\ UNCHANGED << listings, click_attempt, click_success, places, place_src,
                    last_visited, last_name, extracted_cur >>
    /\ UNCHANGED fieldVars

\* extract_place and the passes after it, the test of the name, and
\* places.append(place). Exceptions inside the extractors are swallowed
\* where they are raised.
Extract ==
    /\ pc = "extract"
    /\ \E probes \in NamePages, other_threw \in BOOLEAN :
        \* other_threw: a strategy of another field extractor or of an
        \* advanced pass raised; each of them catches its own exceptions.
        LET place == extract_place(probes) IN
        /\ last_name' = place.name
        /\ exc_cur' = (exc_cur \/ NameProbeThrew(probes) \/ other_threw)
        /\ IF NameRejected(place.name)
           THEN /\ last_event' = "reject"
                /\ UNCHANGED << places, place_src >>
           ELSE /\ last_event' = "accept"
                /\ places' = Accept(places, place)
                /\ place_src' = Accept(place_src, idx + 1)
    /\ extracted_cur' = TRUE
    /\ idx' = Advance(idx)
    /\ pc' = "loop"
    /\ UNCHANGED << result, total, resVars, envVars,
                    close_failed, body_exit >>
    /\ UNCHANGED pagerVars
    /\ UNCHANGED << listings, click_attempt, click_success, last_visited >>
    /\ UNCHANGED fieldVars

\* ------------------------------------------------------ session shutdown

\* finally block of get_page: page.close(). An exception raised here is
\* caught by the handler of scrape_places.
PageClose ==
    /\ pc = "page_close"
    /\ \E ok \in BOOLEAN :
        IF ok
        THEN /\ page' = "closed"
             /\ last_event' = "page_closed"
             /\ UNCHANGED close_failed
        ELSE /\ UNCHANGED page
             /\ last_event' = "page_close_raise"
             /\ close_failed' = close_failed \cup { "page" }
    /\ pc' = "close_context"
    /\ UNCHANGED << result, total, playwright, browser, context, envVars,
                    body_exit >>
    /\ UNCHANGED << pagerVars, candVars >>
    /\ UNCHANGED fieldVars

\* BrowserManager.close: if self.context: await self.context.close().
\* Closing a context closes the pages that belong to it.
CloseContext ==
    /\ pc = "close_context"
    /\ IF context = "none"
       THEN /\ pc' = "close_browser"
            /\ last_event' = "step"
            /\ UNCHANGED << result, context, page, close_failed >>
       ELSE \E ok \in BOOLEAN :
            IF ok
            THEN /\ context' = "closed"
                 /\ page' = (IF page = "open" THEN "closed" ELSE page)
                 /\ pc' = "close_browser"
                 /\ last_event' = "step"
                 /\ UNCHANGED << result, close_failed >>
            ELSE /\ pc' = "done"
                 /\ result' = "raised"
                 /\ last_event' = "close_raise"
                 /\ close_failed' = close_failed \cup { "context" }
                 /\ UNCHANGED << context, page >>
    /\ UNCHANGED << total, playwright, browser, envVars, body_exit >>
    /\ UNCHANGED << pagerVars, candVars >>
    /\ UNCHANGED fieldVars

\* BrowserManager.close: if self.browser: await self.browser.close()
CloseBrowser ==
    /\ pc = "close_browser"
    /\ IF browser = "none"
       THEN /\ pc' = "stop_playwright"
            /\ last_event' = "step"
            /\ UNCHANGED << result, browser, close_failed >>
       ELSE \E ok \in BOOLEAN :
            IF ok
            THEN /\ browser' = "closed"
                 /\ pc' = "stop_playwright"
                 /\ last_event' = "step"
                 /\ UNCHANGED << result, close_failed >>
            ELSE /\ pc' = "done"
                 /\ result' = "raised"
                 /\ last_event' = "close_raise"
                 /\ close_failed' = close_failed \cup { "browser" }
                 /\ UNCHANGED browser
    /\ UNCHANGED << total, playwright, context, page, envVars, body_exit >>
    /\ UNCHANGED << pagerVars, candVars >>
    /\ UNCHANGED fieldVars

\* BrowserManager.close: if self.playwright: await self.playwright.stop(),
\* then the end of scrape_places: return places.
StopPlaywright ==
    /\ pc = "stop_playwright"
    /\ IF playwright = "none"
       THEN /\ result' = "returned"
            /\ last_event' = "return"
            /\ UNCHANGED << playwright, close_failed >>
       ELSE \E ok \in BOOLEAN :
            IF ok
            THEN /\ playwright' = "closed"
                 /\ result' = "returned"
                 /\ last_event' = "return"
                 /\ UNCHANGED close_failed
            ELSE /\ result' = "raised"
                 /\ last_event' = "close_raise"
                 /\ close_failed' = close_failed \cup { "playwright" }
                 /\ UNCHANGED playwright
    /\ pc' = "done"
    /\ UNCHANGED << total, browser, context, page, envVars, body_exit >>
    /\ UNCHANGED << pagerVars, candVars >>
    /\ UNCHANGED fieldVars

\* ------------------------------------------------------- specifications

Next ==
    \/ StartPlaywright \/ LaunchBrowser \/ NewContext \/ AddInitScript
    \/ NewPage \/ SetHeaders \/ Goto \/ Search \/ WaitResults
    \/ Scroll \/ GetListings
    \/ NextCandidate \/ Click \/ Settle \/ Extract
    \/ PageClose \/ CloseContext \/ CloseBrowser \/ StopPlaywright

Spec == Init /\ [][Next]_vars

\* The pager alone: the state of a run when the scroll loop starts (session
\* open, results loaded), for larger targets and longer lists.
InitPager ==
    /\ pc = "paging"
    /\ result = "none"
    /\ virtualized \in BOOLEAN
    /\ total \in 1..(IF virtualized THEN MaxTotal ELSE MaxPagerTotal)
    /\ playwright = "open" /\ browser = "open"
    /\ context = "open" /\ page = "open"
    /\ list_size = MaxPagerTotal + MaxPagerStart
    /\ rendered \in 1..MaxPagerStart
    /\ rendered0 = rendered
    /\ found = 0 /\ previously_counted = 0
    /\ scroll_attempts = 0 /\ no_new_results_count = 0
    /\ listings = 0 /\ idx = 0
    /\ click_attempt = 0 /\ click_success = FALSE
    /\ places = << >>
    /\ body_exit = "none"
    /\ close_failed = { }
    /\ scrolls = 0 /\ list_kind = "none"
    /\ corrective_attempts = 0 /\ corrective_scroll = 0
    /\ no_growth_run = 0
    /\ place_src = << >>
    /\ last_visited = 0
    /\ last_event = "step"
    /\ last_name = "<unset>"
    /\ exc_cur = FALSE /\ extracted_cur = FALSE
    /\ FieldsIdle

NextPager == Scroll \/ GetListings

PagerSpec == InitPager /\ [][NextPager]_vars

\* The end of the pager alone: any target with any rendered count.
InitListings ==
    /\ pc = "get_listings"
    /\ result = "none"
    /\ total \in 1..MaxBufferTotal
    /\ playwright = "open" /\ browser = "open"
    /\ context = "open" /\ page = "open"
    /\ list_size = MaxBufferRendered /\ virtualized = FALSE
    /\ rendered \in 1..MaxBufferRendered
    /\ rendered0 = rendered
    /\ found = rendered /\ previously_counted = 0
    /\ scroll_attempts = 0 /\ no_new_results_count = 0
    /\ listings = 0 /\ idx = 0
    /\ click_attempt = 0 /\ click_success = FALSE
    /\ places = << >>
    /\ body_exit = "none"
    /\ close_failed = { }
    /\ scrolls = 1 /\ list_kind = "none"
    /\ corrective_attempts = 0 /\ corrective_scroll = 0
    /\ no_growth_run = 0
    /\ place_src = << >>
    /\ last_visited = 0
    /\ last_event = "step"
    /\ last_name = "<unset>"
    /\ exc_cur = FALSE /\ extracted_cur = FALSE
    /\ FieldsIdle

ListingsSpec == InitListings /\ [][GetListings]_vars

\* ------------------------------------------- one candidate visit in detail

\* The variables of a run apart from pc and places.
runVars == << result, total, resVars, envVars, pagerVars, listings, idx,
              click_attempt, click_success, place_src, last_visited,
              last_event, last_name, exc_cur, extracted_cur, body_exit,
              close_failed >>

\* A run with the session open and the first candidate clicked.
RunningAt(at) ==
    /\ pc = at
    /\ result = "none"
    /\ total = 1
    /\ playwright = "open" /\ browser = "open"
    /\ context = "open" /\ page = "open"
    /\ list_size = 1 /\ virtualized = FALSE
    /\ rendered = 1 /\ rendered0 = 1
    /\ found = 1 /\ previously_counted = 0
    /\ scroll_attempts = 0 /\ no_new_results_count = 0
    /\ listings = 1 /\ idx = 0
    /\ click_attempt = 1 /\ click_success = TRUE
    /\ places = << >>
    /\ body_exit = "none"
    /\ close_failed = { }
    /\ scrolls = 1 /\ list_kind = "none"
    /\ corrective_attempts = 0 /\ corrective_scroll = 0
    /\ no_growth_run = 0
    /\ place_src = << >>
    /\ last_visited = 1
    /\ last_event = "settle_ok"
    /\ last_name = "<unset>"
    /\ exc_cur = FALSE /\ extracted_cur = FALSE

\* No visit in detail and no cleaner call under way, but for the variables
\* named in kept.
FieldsIdleExcept(kept) ==
    /\ "detail" \in kept \/ detail = BlankPage
    /\ url_coordinates = Unset
    /\ "cur_place" \in kept \/ cur_place = NewPlace
    /\ primary = NewPlace
    /\ adv_called = { }
    /\ consulted = { }
    /\ has_coords = FALSE
    /\ "raw_url" \in kept \/ raw_url = None
    /\ cleaned = None /\ recleaned = None
    /\ "img_url" \in kept \/ img_url = None
    /\ img_primary = None /\ img_advanced = None
    /\ "cur_field" \in kept \/ (cur_field = "none" /\ cur_probes = << >>)
    /\ field_value = << >> /\ queried = 0
    /\ csv_row = << >>
    /\ scenario = NoScenario
    /\ valid_places = << >>

\* place.latitude, place.longitude = pair
WithCoordinates(p, pair) ==
    [ p EXCEPT !.latitude = << pair[1] >>, !.longitude = << pair[2] >> ]

\* coordinates = await self.extract_coordinates_from_url(page.url)
UrlCoordinates ==
    /\ pc = "visit_url"
    /\ url_coordinates' = extract_coordinates_from_url(detail)
    /\ pc' = "visit_place"
    /\ UNCHANGED << detail, cur_place, primary, adv_called, consulted >>
    /\ UNCHANGED << runVars, places, has_coords, urlVars, imgVars,
                    extractVars, csv_row, scenario, valid_places >>

\* place = await extract_place(page): a fresh Place and the fields set
\* before extract_coordinates is called.
ExtractPlace ==
    /\ pc = "visit_place"
    /\ cur_place' = [ NewPlace EXCEPT
                        !.name = extract_name(detail.name),
                        !.address = extract_address(detail.fields.address),
                        !.phone = extract_phone(detail.fields.phone),
                        !.rating = extract_rating(detail.fields.rating),
                        !.reviews_count =
                            extract_reviews_count(detail.fields.reviews_count),
                        !.website = WebsiteOf[detail.web],
                        !.image_url = ImageOf[detail.img] ]
    /\ pc' = "coordinates_url"
    /\ UNCHANGED << detail, url_coordinates, primary, adv_called, consulted >>
    /\ UNCHANGED << runVars, places, has_coords, urlVars, imgVars,
                    extractVars, csv_row, scenario, valid_places >>

\* extract_coordinates, Method 1 tried without returning on a hit.
CoordinatesFromUrl_NoReturn ==
    /\ pc = "coordinates_url"
    /\ consulted' = consulted \cup { "url" }
    /\ cur_place' = IF FromUrl(detail) # Unset
                    THEN WithCoordinates(cur_place, FromUrl(detail))
                    ELSE cur_place
    /\ pc' = "coordinates_embedded"
    /\ UNCHANGED << detail, url_coordinates, primary, adv_called >>
    /\ UNCHANGED << runVars, places, has_coords, urlVars, imgVars,
                    extractVars, csv_row, scenario, valid_places >>

\* extract_coordinates, Method 1: on a hit it returns, and extract_place
\* stores the pair.
CoordinatesFromUrl ==
    /\ pc = "coordinates_url"
    /\ consulted' = consulted \cup { "url" }
    /\ IF FromUrl(detail) # Unset
       THEN /\ cur_place' = WithCoordinates(cur_place, FromUrl(detail))
            /\ pc' = "visit_override"
       ELSE /\ pc' = "coordinates_embedded"
            /\ UNCHANGED cur_place
    /\ UNCHANGED << detail, url_coordinates, primary, adv_called >>
    /\ UNCHANGED << runVars, places, has_coords, urlVars, imgVars,
                    extractVars, csv_row, scenario, valid_places >>

\* extract_coordinates, Method 2
CoordinatesFromContent ==
    /\ pc = "coordinates_embedded"
    /\ consulted' = consulted \cup { "embedded" }
    /\ IF FromContent(detail) # Unset
       THEN /\ cur_place' = WithCoordinates(cur_place, FromContent(detail))
            /\ pc' = "visit_override"
       ELSE /\ pc' = "coordinates_attributes"
            /\ UNCHANGED cur_place
    /\ UNCHANGED << detail, url_coordinates, primary, adv_called >>
    /\ UNCHANGED << runVars, places, has_coords, urlVars, imgVars,
                    extractVars, csv_row, scenario, valid_places >>

\* extract_coordinates, Method 3, and its return with or without a pair.
CoordinatesFromAttributes ==
    /\ pc = "coordinates_attributes"
    /\ consulted' = consulted \cup { "attributes" }
    /\ cur_place' = IF FromAttributes(detail) # Unset
                    THEN WithCoordinates(cur_place, FromAttributes(detail))
                    ELSE cur_place
    /\ pc' = "visit_override"
    /\ UNCHANGED << detail, url_coordinates, primary, adv_called >>
    /\ UNCHANGED << runVars, places, has_coords, urlVars, imgVars,
                    extractVars, csv_row, scenario, valid_places >>

\* Override coordinates if we got them from URL. The primary pass ends
\* here.
OverrideCoordinates ==
    /\ pc = "visit_override"
    /\ cur_place' = IF url_coordinates # Unset
                    THEN WithCoordinates(cur_place, url_coordinates)
                    ELSE cur_place
    /\ primary' = cur_place'
    /\ pc' = "visit_adv_coordinates"
    /\ UNCHANGED << detail, url_coordinates, adv_called, consulted >>
    /\ UNCHANGED << runVars, places, has_coords, urlVars, imgVars,
                    extractVars, csv_row, scenario, valid_places >>

\* if not place.has_coordinates(): extract_coordinates_advanced(page)
AdvancedCoordinates ==
    /\ pc = "visit_adv_coordinates"
    /\ IF ~ has_coordinates(cur_place)
       THEN LET additional_coords == extract_coordinates_advanced(detail)
            IN  /\ adv_called' = adv_called \cup { "coordinates" }
                /\ cur_place' = IF additional_coords # Unset
                                THEN WithCoordinates(cur_place,
                                                     additional_coords)
                                ELSE cur_place
       ELSE UNCHANGED << cur_place, adv_called >>
    /\ pc' = "visit_adv_website"
    /\ UNCHANGED << detail, url_coordinates, primary, consulted >>
    /\ UNCHANGED << runVars, places, has_coords, urlVars, imgVars,
                    extractVars, csv_row, scenario, valid_places >>

\* extract_website_advanced invoked whatever the primary pass found.
AdvancedWebsite_Always ==
    /\ pc = "visit_adv_website"
    /\ LET website == AdvancedWebsiteOf[detail.web]
       IN  /\ adv_called' = adv_called \cup { "website" }
           /\ cur_place' = IF Truthy(website)
                           THEN [ cur_place EXCEPT !.website = website ]
                           ELSE cur_place
    /\ pc' = "visit_adv_image"
    /\ UNCHANGED << detail, url_coordinates, primary, consulted >>
    /\ UNCHANGED << runVars, places, has_coords, urlVars, imgVars,
                    extractVars, csv_row, scenario, valid_places >>

\* if not place.website: extract_website_advanced(page)
AdvancedWebsite ==
    /\ pc = "visit_adv_website"
    /\ IF ~ Truthy(cur_place.website)
       THEN LET website == AdvancedWebsiteOf[detail.web]
            IN  /\ adv_called' = adv_called \cup { "website" }
                /\ cur_place' = IF Truthy(website)
                                THEN [ cur_place EXCEPT !.website = website ]
                                ELSE cur_place
       ELSE UNCHANGED << cur_place, adv_called >>
    /\ pc' = "visit_adv_image"
    /\ UNCHANGED << detail, url_coordinates, primary, consulted >>
    /\ UNCHANGED << runVars, places, has_coords, urlVars, imgVars,
                    extractVars, csv_row, scenario, valid_places >>

\* if not place.image_url: extract_image_advanced(page)
AdvancedImage ==
    /\ pc = "visit_adv_image"
    /\ IF ~ Truthy(cur_place.image_url)
       THEN LET image_url == AdvancedImageOf[detail.img]
            IN  /\ adv_called' = adv_called \cup { "image" }
                /\ cur_place' = IF Truthy(image_url)
                                THEN [ cur_place EXCEPT
                                         !.image_url = image_url ]
                                ELSE cur_place
       ELSE UNCHANGED << cur_place, adv_called >>
    /\ pc' = "visit_validate"
    /\ UNCHANGED << detail, url_coordinates, primary, consulted >>
    /\ UNCHANGED << runVars, places, has_coords, urlVars, imgVars,
                    extractVars, csv_row, scenario, valid_places >>

\* The test of the name, and places.append(place).
Validate ==
    /\ pc = "visit_validate"
    /\ places' = IF NameRejected(cur_place.name) THEN places
                 ELSE Accept(places, cur_place)
    /\ pc' = "visit_done"
    /\ UNCHANGED visitVars
    /\ UNCHANGED << runVars, has_coords, urlVars, imgVars,
                    extractVars, csv_row, scenario, valid_places >>

InitVisit ==
    /\ RunningAt("visit_url")
    /\ detail \in DetailPages
    /\ FieldsIdleExcept({ "detail" })

NextVisit ==
    \/ UrlCoordinates \/ ExtractPlace
    \/ CoordinatesFromUrl \/ CoordinatesFromContent
    \/ CoordinatesFromAttributes \/ OverrideCoordinates
    \/ AdvancedCoordinates \/ AdvancedWebsite \/ AdvancedImage \/ Validate

VisitSpec == InitVisit /\ [][NextVisit]_vars

\* ------------------------------------------- a whole run of candidates

\* Candidate idx + 1 of the run fails the click attempt that starts now.
ClickFails ==
    /\ scenario.at = idx + 1
    /\ \/ scenario.flaw = "click_dead"
       \/ scenario.flaw = "click_retry" /\ click_attempt = 0

\* listing.click(timeout=5000) on a candidate of the run.
ScenarioClick == Click /\ (click_success' <=> ~ClickFails)

\* The waits after the click on a candidate of the run.
ScenarioSettle ==
    Settle /\ ((pc' = "extract")
                  <=> ~(scenario.at = idx + 1 /\ scenario.flaw = "settle"))

\* The page shows the detail view of the clicked candidate; the
\* extraction block of the loop body starts.
DetailShown ==
    /\ pc = "extract"
    /\ detail' = ScenarioPage(scenario, idx + 1)
    /\ url_coordinates' = Unset
    /\ cur_place' = NewPlace
    /\ primary' = NewPlace
    /\ adv_called' = { }
    /\ consulted' = { }
    /\ pc' = "visit_url"
    /\ UNCHANGED << runVars, places, has_coords, urlVars, imgVars,
                    extractVars, csv_row, scenario, valid_places >>

\* End of the loop body: the for loop moves on to the next candidate.
FinishVisit ==
    /\ pc = "visit_done"
    /\ IF Len(places) > Len(place_src)
       THEN /\ place_src' = Accept(place_src, idx + 1)
            /\ last_event' = "accept"
       ELSE /\ last_event' = "reject"
            /\ UNCHANGED place_src
    /\ last_name' = cur_place.name
    /\ extracted_cur' = TRUE
    /\ idx' = Advance(idx)
    /\ pc' = "loop"
    /\ detail' = BlankPage
    /\ url_coordinates' = Unset
    /\ cur_place' = NewPlace
    /\ primary' = NewPlace
    /\ adv_called' = { }
    /\ consulted' = { }
    /\ UNCHANGED << result, total, resVars, envVars, close_failed, body_exit >>
    /\ UNCHANGED pagerVars
    /\ UNCHANGED << listings, click_attempt, click_success, places,
                    last_visited, exc_cur >>
    /\ UNCHANGED << has_coords, urlVars, imgVars, extractVars, csv_row,
                    scenario, valid_places >>

\* filter_valid_places(places) on the list scrape_places returned.
FilterValid ==
    /\ pc = "done"
    /\ result = "returned"
    /\ valid_places' = filter_valid_places(places)
    /\ pc' = "filtered"
    /\ UNCHANGED << runVars, places, visitVars, has_coords, urlVars, imgVars,
                    extractVars, csv_row, scenario >>

\* A run from the start of the scroll loop on (session open, results
\* loaded) over a result list of exactly `total` entries.
InitScenario ==
    /\ pc = "paging"
    /\ result = "none"
    /\ total \in { 1, 2, MaxScenarioTotal }
    /\ playwright = "open" /\ browser = "open"
    /\ context = "open" /\ page = "open"
    /\ list_size = total
    /\ virtualized = FALSE
    /\ rendered \in { r \in 1..total : r >= total - 1 }
    /\ rendered0 = rendered
    /\ found = 0 /\ previously_counted = 0
    /\ scroll_attempts = 0 /\ no_new_results_count = 0
    /\ listings = 0 /\ idx = 0
    /\ click_attempt = 0 /\ click_success = FALSE
    /\ places = << >>
    /\ body_exit = "none"
    /\ close_failed = { }
    /\ scrolls = 0 /\ list_kind = "none"
    /\ corrective_attempts = 0 /\ corrective_scroll = 0
    /\ no_growth_run = 0
    /\ place_src = << >>
    /\ last_visited = 0
    /\ last_event = "none"
    /\ last_name = "<unset>"
    /\ exc_cur = FALSE /\ extracted_cur = FALSE
    /\ detail = BlankPage /\ url_coordinates = Unset
    /\ cur_place = NewPlace /\ primary = NewPlace
    /\ adv_called = { } /\ consulted = { }
    /\ has_coords = FALSE
    /\ raw_url = None /\ cleaned = None /\ recleaned = None
    /\ img_url = None /\ img_primary = None /\ img_advanced = None
    /\ cur_field = "none" /\ cur_probes = << >>
    /\ field_value = << >> /\ queried = 0
    /\ csv_row = << >>
    /\ scenario \in Scenarios(total)
    /\ valid_places = << >>

NextScenario ==
    \/ Scroll \/ GetListings
    \/ NextCandidate \/ ScenarioClick \/ ScenarioSettle \/ DetailShown
    \/ UrlCoordinates \/ ExtractPlace
    \/ CoordinatesFromUrl \/ CoordinatesFromContent
    \/ CoordinatesFromAttributes \/ OverrideCoordinates
    \/ AdvancedCoordinates \/ AdvancedWebsite \/ AdvancedImage \/ Validate
    \/ FinishVisit
    \/ PageClose \/ CloseContext \/ CloseBrowser \/ StopPlaywright
    \/ FilterValid

ScenarioSpec == InitScenario /\ [][NextScenario]_vars

\* --------------------------------------------- the functions on their own

\* place.has_coordinates()
HasCoordinates ==
    /\ pc = "place_new"
    /\ has_coords' = has_coordinates(cur_place)
    /\ pc' = "place_checked"
    /\ UNCHANGED << runVars, places, visitVars, urlVars, imgVars,
                    extractVars, csv_row, scenario, valid_places >>

InitPlace ==
    /\ RunningAt("place_new")
    /\ cur_place \in { [ NewPlace EXCEPT !.latitude = la, !.longitude = lo ] :
                         la \in OptLatitudes, lo \in OptLongitudes }
    /\ FieldsIdleExcept({ "cur_place" })

PlaceSpec == InitPlace /\ [][HasCoordinates]_vars

\* cleaned_url = await clean_website_url(href)
CleanWebsite ==
    /\ pc = "url_raw"
    /\ cleaned' = clean_website_url(raw_url)
    /\ pc' = "url_cleaned"
    /\ UNCHANGED << raw_url, recleaned >>
    /\ UNCHANGED << runVars, places, visitVars, has_coords, imgVars,
                    extractVars, csv_row, scenario, valid_places >>

\* clean_website_url called on a URL it returned.
CleanWebsiteAgain ==
    /\ pc = "url_cleaned"
    /\ cleaned # None
    /\ recleaned' = clean_website_url(cleaned)
    /\ pc' = "url_recleaned"
    /\ UNCHANGED << raw_url, cleaned >>
    /\ UNCHANGED << runVars, places, visitVars, has_coords, imgVars,
                    extractVars, csv_row, scenario, valid_places >>

InitUrl ==
    /\ RunningAt("url_raw")
    /\ raw_url \in RawWebsiteUrls
    /\ FieldsIdleExcept({ "raw_url" })

NextUrl == CleanWebsite \/ CleanWebsiteAgain

UrlSpec == InitUrl /\ [][NextUrl]_vars

\* cleaned_url = clean_image_url(img_url) of extractors.py
CleanImage ==
    /\ pc = "img_raw"
    /\ img_primary' = clean_image_url(img_url)
    /\ pc' = "img_primary"
    /\ UNCHANGED << img_url, img_advanced >>
    /\ UNCHANGED << runVars, places, visitVars, has_coords, urlVars,
                    extractVars, csv_row, scenario, valid_places >>

\* cleaned_url = self.clean_image_url(img_url) of core.py
CleanImageAdvanced ==
    /\ pc = "img_primary"
    /\ img_advanced' = core_clean_image_url(img_url)
    /\ pc' = "img_done"
    /\ UNCHANGED << img_url, img_primary >>
    /\ UNCHANGED << runVars, places, visitVars, has_coords, urlVars,
                    extractVars, csv_row, scenario, valid_places >>

InitImage ==
    /\ RunningAt("img_raw")
    /\ img_url \in RawImageUrls
    /\ FieldsIdleExcept({ "img_url" })

NextImage == CleanImage \/ CleanImageAdvanced

ImageSpec == InitImage /\ [][NextImage]_vars

\* value = await extract_<field>(page)
ExtractField ==
    /\ pc = "field_new"
    /\ field_value' = extract_field(cur_field, cur_probes)
    /\ queried' = Queried(cur_field, cur_probes)
    /\ pc' = "field_done"
    /\ UNCHANGED << cur_field, cur_probes, csv_row, scenario, valid_places >>
    /\ UNCHANGED << runVars, places, visitVars, has_coords, urlVars,
                    imgVars >>

InitField ==
    /\ RunningAt("field_new")
    /\ cur_field \in { "name", "address", "phone", "rating", "reviews_count" }
    /\ cur_probes \in FieldPages(cur_field)
    /\ FieldsIdleExcept({ "cur_field" })

FieldSpec == InitField /\ [][ExtractField]_vars

\* row = place.to_csv_row()
ToCsvRow ==
    /\ pc = "csv_new"
    /\ csv_row' = to_csv_row(cur_place)
    /\ pc' = "csv_done"
    /\ UNCHANGED << runVars, places, visitVars, has_coords, urlVars,
                    imgVars, extractVars, scenario, valid_places >>

InitCsv ==
    /\ RunningAt("csv_new")
    /\ cur_place \in CsvPlaces
    /\ FieldsIdleExcept({ "cur_place" })

CsvSpec == InitCsv /\ [][ToCsvRow]_vars

\* -------------------------------------------------------------- claims

Range(seq) == { seq[i] : i \in 1..Len(seq) }

\* The pager loop is over (break, or the attempt cap) / is still running.
PagerStopped ==
    \/ pc \in { "get_listings", "loop" }
    \/ pc = "paging" /\ scroll_attempts >= 30
PagerRunning == pc = "paging" /\ scroll_attempts < 30

\* C1: every record of the output collection has a non-empty name that is
\* neither "Unknown" nor "Failed to extract", and a candidate whose
\* extraction produced an empty or sentinel name is not appended.
C1_AcceptedNamesValid ==
    /\ \A i \in 1..Len(places) :
          places[i].name \notin { "", "Unknown", "Failed to extract", "<unset>" }
    /\ last_event = "accept" =>
          /\ last_name \notin { "", "Unknown", "Failed to extract", "<unset>" }
          /\ places[Len(places)].name = last_name
    /\ last_event = "reject" =>
          last_name \in { "", "Unknown", "Failed to extract", "<unset>" }

\* C1 witness: a record has been accepted and a later candidate, whose
\* extraction produced "Unknown", has just been rejected.
C1_Witness ==
    /\ Len(places) >= 1
    /\ last_event = "reject"
    /\ last_name = "Unknown"

\* C2: the output collection never holds more than total records, no
\* candidate is clicked or extracted once total records are accepted, and
\* the loop ends only on reaching total or on exhausting the candidates.
C2_TargetBound ==
    /\ Len(places) <= total
    /\ pc \in { "click", "settle", "extract" } => Len(places) < total
    /\ body_exit = "complete" => (Len(places) = total \/ idx = listings)

\* C2 witness: the run is over with total records accepted while candidates
\* were left unvisited.
C2_Witness ==
    /\ pc = "done"
    /\ Len(places) = total
    /\ last_visited < listings

\* C3: candidates are visited in list order, each once (the candidate
\* being visited is the one after those left behind), and the records
\* come from strictly increasing candidate numbers.
C3_OrderPreserved ==
    /\ Len(place_src) = Len(places)
    /\ \A i \in 1..Len(place_src) : place_src[i] \in 1..last_visited
    /\ \A i, j \in 1..Len(place_src) : i < j => place_src[i] < place_src[j]
    /\ last_visited <= listings
    /\ pc \in { "click", "settle", "extract" } => last_visited = idx + 1
    /\ pc = "loop" => last_visited = idx

\* C3 witness: two records accepted, from the first and the third
\* candidate, the second having been skipped.
C3_Witness == place_src = << 1, 3 >>

\* C4: scrape_places never raises whichever collaborator call fails, and
\* returns an empty list when the failure was in Navigate or Search.
C4_NeverRaises ==
    /\ result # "raised"
    /\ body_exit \in { "navigate", "search" } => places = << >>

\* C5: when the wait for the first result link times out, no scroll is
\* issued, no candidate is visited, and the run returns an empty list
\* without raising.
C5_TimeoutReturnsEmpty ==
    body_exit = "timeout" =>
        /\ scrolls = 0
        /\ last_visited = 0
        /\ places = << >>
        /\ pc \in { "page_close", "close_context", "close_browser",
                    "stop_playwright", "done" }
        /\ result # "raised"

\* C6: when the call is over, no acquired session resource (page, browser
\* context, browser process, automation driver) is still open, a resource
\* whose own close call raised aside.
C6_AllClosedOnExit ==
    pc = "done" =>
        /\ page = "open" => "page" \in close_failed
        /\ context = "open" => "context" \in close_failed
        /\ browser = "open" => "browser" \in close_failed
        /\ playwright = "open" => "playwright" \in close_failed

\* C7 as stated: a candidate during whose visit an exception was raised
\* (click, settle wait, field extraction, advanced pass) is not accepted.
C7_AnyExceptionSkips ==
    /\ last_event = "accept" => ~exc_cur
    /\ body_exit \notin { "none", "timeout", "complete" } => last_visited = 0

\* C7 amended: an exception while visiting a candidate never ends the run
\* and the loop goes on with the next candidate; the candidate is skipped
\* with the output unchanged when the exception reaches the per-candidate
\* handler (settle wait) or all click attempts failed; a failed click
\* attempt before the last is retried, and a candidate whose exceptions
\* were swallowed inside the extractors completes its extraction.
C7_HandlerSkipsCandidate ==
    /\ body_exit \notin { "none", "timeout", "complete" } => last_visited = 0
    /\ last_event \in { "click_exhausted", "settle_raise" } =>
          /\ exc_cur
          /\ pc = "loop"
          /\ idx = last_visited
          /\ last_visited \notin Range(place_src)
          /\ result = "none"
    /\ last_event = "click_fail" =>
          /\ pc = "click"
          /\ idx + 1 = last_visited
    /\ (exc_cur /\ last_event \in { "accept", "reject" }) =>
          /\ extracted_cur
          /\ pc = "loop"
          /\ idx = last_visited
          /\ (last_event = "accept" <=> last_visited \in Range(place_src))

\* C7 witness: a settle wait has just raised after a record was accepted;
\* the loop is at its head with the record still there.
C7_Witness ==
    /\ last_event = "settle_raise"
    /\ Len(places) >= 1

\* C8 as stated: at most 3 click attempts, and for a candidate left behind
\* extraction ran if and only if a click attempt succeeded.
C8_ExtractIffClicked ==
    /\ click_attempt <= 3
    /\ (pc = "loop" /\ last_visited > 0) => (extracted_cur <=> click_success)

\* C8 amended: at most 3 click attempts, none after a success; extraction
\* runs only after a successful click, and after a successful click it
\* runs unless the settle wait raises; a candidate whose 3 attempts all
\* failed is skipped without a record.
C8_ClickRetries ==
    /\ click_attempt <= 3
    /\ pc = "click" => ~click_success
    /\ pc \in { "settle", "extract" } => click_success
    /\ extracted_cur => click_success
    /\ (pc = "loop" /\ last_visited > 0) =>
          /\ ~click_success =>
                /\ click_attempt = 3
                /\ last_event = "click_exhausted"
                /\ last_visited \notin Range(place_src)
          /\ (click_success /\ ~extracted_cur) => last_event = "settle_raise"
          /\ extracted_cur => last_event \in { "accept", "reject" }

\* C8 witness: the third click attempt succeeded and extraction ran.
C8_Witness ==
    /\ pc = "loop"
    /\ click_attempt = 3
    /\ click_success
    /\ extracted_cur

C10_StopsAtTarget ==
    /\ scrolls <= 30
    /\ list_kind = "plus1" =>
          /\ PagerRunning => rendered < total
          /\ PagerStopped =>
                /\ rendered >= total
                /\ (scrolls = 1 \/ rendered - 1 < total)

\* C10 amended: on such a list the pager stops at the first scroll after
\* which the rendered count is at least total when total is at most the
\* initial count plus 30, and otherwise at the cap, after exactly 30 scroll
\* attempts with the rendered count still below total.
C10_StopsAtTargetOrCap ==
    /\ scrolls <= 30
    /\ list_kind = "plus1" =>
          /\ rendered = rendered0 + scrolls
          /\ PagerRunning => rendered < total
          /\ PagerStopped =>
                IF total <= rendered0 + 30
                THEN /\ rendered >= total
                     /\ (scrolls = 1 \/ rendered - 1 < total)
                ELSE /\ scrolls = 30
                     /\ rendered < total

\* C10 witness: the target was reached after several scrolls of a list
\* growing by 1.
C10_Witness ==
    /\ list_kind = "plus1"
    /\ pc = "get_listings"
    /\ scrolls > 1
    /\ rendered = total

\* The pair a place carries, Unset when either coordinate is None.
CoordinatesOf(p) ==
    IF p.latitude = Unset \/ p.longitude = Unset THEN Unset
    ELSE << p.latitude[1], p.longitude[1] >>

\* A pair within -90..90 and -180..180 degrees that is not exactly (0, 0).
ProperPair(pair) ==
    /\ -90 * Scale <= pair[1] /\ pair[1] <= 90 * Scale
    /\ -180 * Scale <= pair[2] /\ pair[2] <= 180 * Scale
    /\ ~ (pair[1] = 0 /\ pair[2] = 0)

\* C11: the candidates taken after paging are the first
\* min(target x 1.5, rendered) entries of the result list, target x 1.5
\* counted in whole entries (a half entry is dropped); with target 10 and
\* 20 entries rendered, 15 are taken.
C11_BufferTruncated ==
    (pc = "loop" /\ last_event = "listings")
        => /\ listings = Min((3 * total) \div 2, rendered)
           /\ listings <= rendered
           /\ (total = 10 /\ rendered = 20) => listings = 15

\* C11 witness: target 10 with 20 entries rendered, 15 candidates taken.
C11_Witness ==
    /\ pc = "loop" /\ last_event = "listings"
    /\ total = 10 /\ rendered = 20 /\ listings = 15

\* C12 as stated: Place.has_coordinates() is true exactly when latitude
\* and longitude are both set, within -90..90 and -180..180, and not
\* exactly (0, 0); it is false when only one of the two is set.
C12_HasCoordinatesIff ==
    pc = "place_checked"
        => (has_coords <=> /\ CoordinatesOf(cur_place) # Unset
                           /\ ProperPair(CoordinatesOf(cur_place)))

\* C13 as stated: every pair the orchestrator's URL match yields, every
\* pair a resolver tier or the advanced scan puts on the place, and every
\* pair of an accepted record is in range and not exactly (0, 0).
C13_PairsInRangeNotOrigin ==
    /\ url_coordinates # Unset => ProperPair(url_coordinates)
    /\ CoordinatesOf(cur_place) # Unset => ProperPair(CoordinatesOf(cur_place))
    /\ \A i \in 1..Len(places) :
          CoordinatesOf(places[i]) # Unset
              => ProperPair(CoordinatesOf(places[i]))

\* The first pattern of page.url whose match is in range, 5 when none is.
C14_UrlHit ==
    LET hits == { i \in 1..4 : detail.url[i] # Unset /\ InRange(detail.url[i]) }
    IN  IF hits = { } THEN 5
        ELSE CHOOSE i \in hits : \A j \in hits : i <= j

\* The first match in the page content that the embedded tier validates,
\* 0 when there is none or the content cannot be read.
C14_EmbeddedHit ==
    LET m == detail.content.matches
        hits == { i \in 1..Len(m) : InRange(m[i]) /\ AwayFromAxes(m[i]) }
    IN  IF detail.content.raises \/ hits = { } THEN 0
        ELSE CHOOSE i \in hits : \A j \in hits : i <= j

\* The data attributes hold a pair in range.
C14_AttributeHit ==
    detail.attrs.kind = "pair" /\ InRange(detail.attrs.pair)

\* C14: the resolver tries the URL, then the embedded data, then the
\* element attributes; a later tier is consulted only when the earlier ones
\* gave no validated pair, the pair returned is the first validated one, and
\* with no validated pair anywhere it returns without coordinates and
\* without an error.
C14_StrictPriority ==
    /\ pc = "coordinates_embedded" => consulted = { "url" }
    /\ pc = "coordinates_attributes" => consulted = { "url", "embedded" }
    /\ pc = "visit_override"
        => /\ "url" \in consulted
           /\ "embedded" \in consulted <=> C14_UrlHit = 5
           /\ "attributes" \in consulted
                 <=> (C14_UrlHit = 5 /\ C14_EmbeddedHit = 0)
           /\ CoordinatesOf(cur_place) =
                 IF C14_UrlHit # 5 THEN detail.url[C14_UrlHit]
                 ELSE IF C14_EmbeddedHit # 0
                 THEN detail.content.matches[C14_EmbeddedHit]
                 ELSE IF C14_AttributeHit THEN detail.attrs.pair
                 ELSE Unset

\* C14 witness: URL and embedded data gave nothing, so the pair of the
\* attributes was returned.
C14_Witness ==
    /\ pc = "visit_override"
    /\ consulted = { "url", "embedded", "attributes" }
    /\ CoordinatesOf(cur_place) = AtAttr

\* C15: an advanced pass runs only for a field the primary pass left
\* empty, and a non-empty website, a non-empty image URL and a coordinate
\* pair of the primary pass are still on the place, and on the accepted
\* record, after the advanced passes.
C15_AdvancedOnlyFillsGaps ==
    /\ "coordinates" \in adv_called => CoordinatesOf(primary) = Unset
    /\ "website" \in adv_called => ~ Truthy(primary.website)
    /\ "image" \in adv_called => ~ Truthy(primary.image_url)
    /\ pc \in { "visit_adv_website", "visit_adv_image", "visit_validate",
                "visit_done" }
        => /\ CoordinatesOf(primary) # Unset
                => CoordinatesOf(cur_place) = CoordinatesOf(primary)
           /\ Truthy(primary.website) => cur_place.website = primary.website
           /\ Truthy(primary.image_url)
                => cur_place.image_url = primary.image_url
    /\ (pc = "visit_done" /\ Len(places) = 1)
        => /\ Truthy(primary.website) => places[1].website = primary.website
           /\ Truthy(primary.image_url)
                => places[1].image_url = primary.image_url
           /\ CoordinatesOf(primary) # Unset
                => CoordinatesOf(places[1]) = CoordinatesOf(primary)

\* C15 witness: the primary pass found a website and coordinates but no
\* image; only the advanced image pass ran, and the record was accepted
\* with the primary website.
C15_Witness ==
    /\ pc = "visit_done" /\ Len(places) = 1
    /\ adv_called = { "image" }
    /\ Truthy(primary.website) /\ places[1].website = primary.website
    /\ CoordinatesOf(primary) # Unset
    /\ Truthy(places[1].image_url)

\* The domains no website may match.
C16_Denylist ==
    { "google.com", "gstatic.com", "googleapis.com", "maps.google.com",
      "youtube.com" }

\* The websites a visit can put on a place that are absolute http(s) URLs
\* with a dot in the network location and no denylisted domain in it.
C16_ProperWebsites ==
    { u \in { WebsiteOf[w] : w \in WebPages }
              \cup { AdvancedWebsiteOf[w] : w \in WebPages } :
        /\ StartsWith(u, "http://") \/ StartsWith(u, "https://")
        /\ Contains(urlparse(u).netloc, ".")
        /\ \A d \in C16_Denylist : ~ ContainsLower(urlparse(u).netloc, d) }

\* C16 as stated: the website of every accepted record, from the primary
\* or the advanced pass, is an absolute http(s) URL whose network location
\* contains a dot and matches no entry of the denylist.
C16_WebsiteAbsoluteNotDenied ==
    \A i \in 1..Len(places) :
        Truthy(places[i].website) => places[i].website \in C16_ProperWebsites

\* The image elements whose source passes the validity precheck: an
\* absolute or protocol-relative URL with a marker of an image and none of
\* 'data:image', 'blob:', 'avatar', 'profile'.
C17_Prechecked ==
    { img \in ImagePages :
        /\ img.src # None
        /\ \/ StartsWith(img.src, "http://") \/ StartsWith(img.src, "https://")
           \/ StartsWith(img.src, "//")
        /\ \E v \in valid_indicators : ContainsLower(img.src, v)
        /\ \A d \in { "data:image", "blob:", "avatar", "profile" } :
              ~ ContainsLower(img.src, d) }

\* C17 as stated: the image URL of every accepted record, from the primary
\* or the advanced pass, comes from a source that passed the validity
\* precheck, denied markers included.
C17_ImagePrechecked ==
    (pc = "visit_done" /\ Len(places) = 1 /\ Truthy(places[1].image_url))
        => detail.img \in C17_Prechecked

\* C18 as stated: clean_website_url applied to a URL it returned gives
\* that URL again.
C18_CleanIdempotent ==
    pc = "url_recleaned" => recleaned = cleaned

\* The redirect wrapper around https://example.com with any further
\* parameters after q.
C19_Wrapped ==
    { "https://www.google.com/url?q=https://example.com" \o x :
        x \in ExtraQueries }

\* C19: the redirect wrapper around https://example.com normalizes to
\* exactly https://example.com whatever parameters follow q, in the
\* primary cleaner and in the unwrapping of the advanced pass.
C19_WrapperUnwrapped ==
    (pc \in { "url_cleaned", "url_recleaned" } /\ raw_url \in C19_Wrapped)
        => /\ cleaned = "https://example.com"
           /\ Unwrap(raw_url) = "https://example.com"

\* C19 witness: the wrapper with sa, ved and usg after q was cleaned to
\* https://example.com.
C19_Witness ==
    /\ pc = "url_cleaned"
    /\ raw_url = "https://www.google.com/url?q=https://example.com"
                    \o "&sa=U&ved=2ahUKEwi&usg=AOvVaw3"
    /\ cleaned = "https://example.com"

\* C20 as stated: for a googleusercontent image the primary and the
\* advanced cleaner give the same URL, the source without its size fragment
\* followed by one fixed size parameter.
C20_SameSizeParameter ==
    (pc = "img_done" /\ Contains(img_url, "googleusercontent.com"))
        => /\ img_primary = img_advanced
           /\ \E p \in { "=s800", "&s=800", "=s1000", "&s=1000" } :
                 img_primary = Unsized(Absolute(img_url)) \o p

\* C25 as stated: the pager makes at most 30 scroll attempts and stops
\* earlier exactly when the rendered count has reached the target or 5
\* consecutive scrolls without growth have been observed: while it runs
\* neither has happened, and when it has stopped before the cap one of
\* them has.
C25_StopsOnTargetOrFiveNoGrowth ==
    /\ scrolls <= 30
    /\ (pc = "paging" /\ scroll_attempts < 30 /\ scrolls > 0)
          => (rendered < total /\ no_growth_run < 5)
    /\ (pc = "get_listings" /\ scrolls < 30)
          => (rendered >= total \/ no_growth_run >= 5)

\* C26 as stated: a scroll after the first that leaves the pager running
\* resets the no-growth counter exactly when the rendered count is larger
\* than after the previous scroll, and increments it when the count is
\* equal or smaller.
C26_ResetExactlyOnGrowth ==
    [][ (pc = "paging" /\ pc' = "paging" /\ scrolls >= 1
            /\ scrolls' = scrolls + 1)
          => no_new_results_count' =
                IF rendered' > previously_counted THEN 0
                ELSE no_new_results_count + 1 ]_vars

\* C23: the output collection is append-only and its records are final:
\* every step leaves it unchanged or appends exactly one record at the
\* end, all records already in it staying as they are.
C23_AppendOnly ==
    [][ \/ places' = places
        \/ /\ Len(places') = Len(places) + 1
           /\ SubSeq(places', 1, Len(places)) = places ]_vars

\* C23 witness: a second, different record was appended after a candidate
\* in between had failed, the first record being unchanged.
C23_Witness ==
    /\ Len(places) = 2
    /\ place_src = << 1, 3 >>
    /\ places[1] # places[2]
    /\ last_event = "accept"

\* Rating texts that hold a number within 0..5, and texts that hold a
\* number outside it.
C22_InRangeTexts == { "4.5", " 4.5 stars", "0", "-1", "Rated 3", "5.0" }
C22_OutOfRangeTexts == { "7.2", "10" }

\* C22: the value extract_rating returns is unset or a number in [0, 5];
\* a rating text with a number outside [0, 5] is discarded and the next
\* strategy is tried, so a later strategy with a number in range still
\* gives the rating.
C22_RatingInRange ==
    (pc = "field_done" /\ cur_field = "rating")
        => /\ field_value = << >>
                \/ (0 <= field_value[1] /\ field_value[1] <= 5 * Scale)
           /\ \A i \in 1..queried :
                 cur_probes[i] \in C22_OutOfRangeTexts
                    => IF i < Len(cur_probes) THEN i < queried
                       ELSE field_value = << >>
           /\ (\E i \in 1..Len(cur_probes) : cur_probes[i] \in C22_InRangeTexts)
                 => field_value # << >>

\* C22 witness: the first strategy met "7.2", which was discarded, and
\* the second one gave the rating 4.5.
C22_Witness ==
    /\ pc = "field_done" /\ cur_field = "rating"
    /\ cur_probes[1] = "7.2" /\ cur_probes[2] = "4.5"
    /\ queried = 2
    /\ field_value = << 45000 >>

\* The value a strategy gives for the text its element holds, << >> when
\* the strategy does not succeed.
C27_Expected(t) ==
    CASE t = "Green Sod" -> << "Green Sod" >>
      [] t = " Turf Co " -> << "Turf Co" >>
      [] t = "Unknown" -> << "Unknown" >>
      [] t = " 12 Farm Rd " -> << "12 Farm Rd" >>
      [] t = "Main St" -> << "Main St" >>
      [] t = "+1 555-0100" -> << "+1 555-0100" >>
      [] t = " 555-0199" -> << "555-0199" >>
      [] t \in { "4.5", " 4.5 stars" } -> << 45000 >>
      [] t = "0" -> << 0 >>
      [] t = "-1" -> << 10000 >>
      [] t = "Rated 3" -> << 30000 >>
      [] t = "5.0" -> << 50000 >>
      [] t = "(1,234)" -> << 1234 >>
      [] t = "87 reviews" -> << 87 >>
      [] OTHER -> << >>

\* The first strategy of the current field that succeeds, 0 if none does.
C27_Winner ==
    LET wins == { i \in 1..Len(cur_probes) :
                    C27_Expected(cur_probes[i]) # << >> }
    IN  IF wins = { } THEN 0 ELSE CHOOSE i \in wins : \A j \in wins : i <= j

\* C27: for name, address, phone, rating and review count the strategies
\* are tried in list order; the result is the value of the first one that
\* finds an element with a non-empty, valid value, and no later strategy is
\* queried; a strategy that finds nothing, finds an empty or invalid value
\* or throws is passed over; when none succeeds the field is unset (the
\* name: "Unknown").
C27_FirstStrategyWins ==
    pc = "field_done"
        => IF C27_Winner # 0
           THEN /\ field_value = C27_Expected(cur_probes[C27_Winner])
                /\ queried = C27_Winner
           ELSE /\ field_value = IF cur_field = "name" THEN << "Unknown" >>
                                 ELSE << >>
                /\ queried = Len(cur_probes)

\* C27 witness: two strategies of the review count were passed over (one
\* threw), the third gave 1234, and the fourth, which would have given 87,
\* was not queried.
C27_Witness ==
    /\ pc = "field_done" /\ cur_field = "reviews_count"
    /\ cur_probes[1] = "<throws>" /\ cur_probes[3] = "(1,234)"
    /\ cur_probes[4] = "87 reviews"
    /\ queried = 3
    /\ field_value = << 1234 >>

\* The fields of a Place that hold text; the other four hold numbers.
C30_TextFields == { "name", "address", "phone", "website", "image_url" }

\* C30: to_csv_row gives one cell per csv_headers entry, in the order of
\* to_dict; a cell is empty exactly when its field is unset or the empty
\* string, and a set numeric field (rating 0, review count 0, latitude 0
\* and longitude 0 included) is written as its value.
C30_CellEmptyIffUnset ==
    pc = "csv_done"
        => /\ Len(csv_row) = Len(csv_headers)
           /\ csv_headers = to_dict_keys
           /\ \A i \in 1..Len(csv_row) :
                 LET h == csv_headers[i]
                 IN  IF h \in C30_TextFields
                     THEN IF cur_place[h] \in { None, "" }
                          THEN csv_row[i] = << >>
                          ELSE csv_row[i] = << cur_place[h] >>
                     ELSE csv_row[i] = cur_place[h]

\* Addresses that contain /@<lat>,<lng>,<zoom> with the pair in range, and
\* the pair each of them spells, in 1/10000 degree.
C21_Spelled ==
    [ a \in { "https://www.google.com/maps/place/Green+Sod/@37.422,-122.084,15z",
              "https://www.google.com/maps/place/X/@-33.8688,151.2093,12z",
              "https://www.google.com/maps/place/X/@0,0,15z" } |->
        CASE a = "https://www.google.com/maps/place/Green+Sod/@37.422,-122.084,15z"
                -> << 374220, -1220840 >>
          [] a = "https://www.google.com/maps/place/X/@-33.8688,151.2093,12z"
                -> << -338688, 1512093 >>
          [] a = "https://www.google.com/maps/place/X/@0,0,15z"
                -> << 0, 0 >> ]

\* C21: when the address of the detail view contains /@<lat>,<lng>,<zoom>
\* with the pair in range, the place carries exactly (lat, lng) once the
\* primary pass is over, and so does the record appended for it, whatever
\* the embedded data and the attributes of the page hold; for
\* /@37.422,-122.084,15z the pair is (37.422, -122.084).
C21_AddressPairRecorded ==
    detail.page_url \in DOMAIN C21_Spelled
        => /\ pc \in { "visit_adv_coordinates", "visit_adv_website",
                       "visit_adv_image", "visit_validate", "visit_done" }
                => CoordinatesOf(cur_place) = C21_Spelled[detail.page_url]
           /\ \A i \in 1..Len(places) :
                 CoordinatesOf(places[i]) = C21_Spelled[detail.page_url]

\* C21 witness: the address spells (37.422, -122.084), the embedded data
\* and the attributes hold other valid pairs, and the appended record
\* carries the pair of the address.
C21_Witness ==
    /\ pc = "visit_done"
    /\ detail.page_url
          = "https://www.google.com/maps/place/Green+Sod/@37.422,-122.084,15z"
    /\ detail.content.matches = << AtOther >>
    /\ detail.attrs.pair = AtAttr
    /\ Len(places) = 1
    /\ CoordinatesOf(places[1]) = << 374220, -1220840 >>

\* A match the embedded-data tier accepts: in range, with both
\* coordinates more than 0.001 away from 0.
C28_Accepted(pair) ==
    /\ -900000 <= pair[1] /\ pair[1] <= 900000
    /\ -1800000 <= pair[2] /\ pair[2] <= 1800000
    /\ (pair[1] > 10 \/ pair[1] < -10)
    /\ (pair[2] > 10 \/ pair[2] < -10)

\* The positions of the accepted matches of the page content.
C28_AcceptedAt ==
    { i \in 1..Len(detail.content.matches) :
        C28_Accepted(detail.content.matches[i]) }

\* C28: the embedded-data tier goes through the matches in the order
\* grammar by grammar, match by match, and returns the first one that is in
\* range with |lat| > 0.001 and |lng| > 0.001; a match before it that is
\* out of range or near the origin does not keep it from being returned,
\* and the attribute tier is consulted only when the content holds no such
\* match.
C28_FirstAcceptedMatch ==
    /\ ("embedded" \in consulted /\ "attributes" \notin consulted
            /\ pc = "visit_override")
        => /\ C28_AcceptedAt # { }
           /\ CoordinatesOf(cur_place)
                 = detail.content.matches[
                      CHOOSE i \in C28_AcceptedAt :
                          \A j \in C28_AcceptedAt : i <= j ]
    /\ "attributes" \in consulted => C28_AcceptedAt = { }

\* C28 witness: the first match is out of range, the second lies on an
\* axis (latitude 0.001), and the tier returned the third.
C28_Witness ==
    /\ pc = "visit_override"
    /\ consulted = { "url", "embedded" }
    /\ detail.content.matches = << OffRange, OnAxis, AtOther >>
    /\ CoordinatesOf(cur_place) = AtOther

\* The name and the pair in the address of candidate k of a run.
C24_Name(k) == "Sod Farm " \o ToString(k)
C24_Geodata(k) == << (30 + k) * 10000 + 5000, 0 - ((100 + k) * 10000 + 2500) >>

\* C24: when the candidates taken from the result list are exactly
\* `total`, each of them clicks (at once or on a retry), shows a valid name
\* and spells its own valid pair in the address of its detail view, and the
\* session shuts down without an error, scrape_places returns exactly
\* `total` records, each with has_coordinates() true and the pair of its
\* address, in the order in which the candidates were revealed.
C24_EndToEnd ==
    (/\ pc \in { "done", "filtered" }
     /\ scenario.flaw \in { "none", "click_retry" }
     /\ listings = total
     /\ close_failed = { })
        => /\ result = "returned"
           /\ Len(places) = total
           /\ place_src = [ i \in 1..total |-> i ]
           /\ \A i \in 1..total :
                 /\ has_coordinates(places[i])
                 /\ CoordinatesOf(places[i]) = C24_Geodata(i)
                 /\ places[i].name = C24_Name(i)

\* C24 witness: a run with target 10 whose list showed 9 entries before the
\* first scroll has returned 10 records.
C24_Witness ==
    /\ pc = "done" /\ result = "returned"
    /\ total = 10 /\ rendered0 = 9
    /\ scenario = NoScenario
    /\ Len(places) = 10
    /\ CoordinatesOf(places[10]) = << 405000, -1102500 >>

\* A record that validate_place_data finds valid.
C29_Valid(p) ==
    /\ p.name \notin { None, "", " " }
    /\ \/ p.latitude = << >> /\ p.longitude = << >>
       \/ /\ p.latitude # << >> /\ p.longitude # << >>
          /\ -900000 <= p.latitude[1] /\ p.latitude[1] <= 900000
          /\ -1800000 <= p.longitude[1] /\ p.longitude[1] <= 1800000
    /\ p.rating = << >> \/ (0 <= p.rating[1] /\ p.rating[1] <= 50000)

\* C29: every record of the list scrape_places builds and returns passes
\* validate_place_data (name not empty, latitude and longitude both unset
\* or both set and in range, rating unset or within 0..5), so
\* filter_valid_places returns the returned list unchanged.
C29_OutputPassesValidation ==
    /\ \A i \in 1..Len(places) :
          /\ validate_place_data(places[i]).valid
          /\ C29_Valid(places[i])
    /\ pc = "filtered" => valid_places = places

\* C29 witness: a returned list of 10 records, one of them without
\* coordinates and several with a rating, went through filter_valid_places
\* unchanged.
C29_Witness ==
    /\ pc = "filtered"
    /\ Len(valid_places) = 10
    /\ valid_places = places
    /\ \E i \in 1..10 : places[i].latitude = << >>
    /\ \E i \in 1..10 : places[i].rating = << 45000 >>
    /\ \E i \in 1..10 : places[i].rating = << 0 >>

====
